---- MODULE Spec2Model ----
(***************************************************************************)
(* A model of the REWRDS card scoring engine (src/scoring/scoringEngine.js)*)
(* The file holds two generations of the engine; JavaScript keeps the last *)
(* declaration of each function, so the engine that runs is the one of     *)
(* lines 311-880, and that is the one modelled here.  The last section     *)
(* models the seeding script (src/seed.js): upsertCard over the tables and *)
(* the transaction of seed(), with db the tables as committed and as the   *)
(* open transaction sees them, and ret the statements the run has issued.  *)
(*                                                                         *)
(* Representation                                                          *)
(*  - a JS string is a TLA+ string; toLowerCase, trim and includes are     *)
(*    computed character by character;                                     *)
(*  - an optional scalar field is <<>> when absent (undefined/null) and    *)
(*    <<v>> when present; an array field is a sequence, <<>> when absent   *)
(*    (the code reads every array through `|| []` or Array.isArray);       *)
(*  - dollars are integers; a point value is an integer count of 1e-4      *)
(*    dollars (0.01 $/pt = 100); a raw score is an integer count of 1e-6   *)
(*    score points, so that amount * rate * pointValue / 100 is exact;     *)
(*    a final score (toFixed(2)) is an integer count of hundredths.        *)
(***************************************************************************)
EXTENDS Integers, Sequences, FiniteSets, TLC

VARIABLES cards, answers, results, ret, pc, db

vars == <<cards, answers, results, ret, pc, db>>

\* ------------------------------------------------------------------
\*  JavaScript values
\* ------------------------------------------------------------------

None == <<>>

Some(v) == <<v>>

\* the result of a numeric expression: a number, or a value that is none (a
\* function or an object found in a lookup table, NaN once arithmetic is done on
\* it); such a value compares false with every number
Num(n) == [number |-> TRUE, value |-> n]

NotANumber == [number |-> FALSE, value |-> 0]

\* the names every object literal inherits from Object.prototype: table[key]
\* finds a function under them (the prototype object under __proto__)
ObjectPrototypeKeys ==
    {"constructor", "toString", "toLocaleString", "valueOf", "hasOwnProperty",
     "isPrototypeOf", "propertyIsEnumerable", "__proto__"}

\* `x || ""` for an optional string
orEmpty(o) == IF o = None THEN "" ELSE o[1]

\* `x || 0` and `typeof x === "number" ? x : 0` for an optional number
orZero(o) == IF o = None THEN 0 ELSE o[1]

upperCase == {"A","B","C","D","E","F","G","H","I","J","K","L","M",
              "N","O","P","Q","R","S","T","U","V","W","X","Y","Z"}

lowerOf(c) ==
    CASE c = "A" -> "a" [] c = "B" -> "b" [] c = "C" -> "c" [] c = "D" -> "d"
      [] c = "E" -> "e" [] c = "F" -> "f" [] c = "G" -> "g" [] c = "H" -> "h"
      [] c = "I" -> "i" [] c = "J" -> "j" [] c = "K" -> "k" [] c = "L" -> "l"
      [] c = "M" -> "m" [] c = "N" -> "n" [] c = "O" -> "o" [] c = "P" -> "p"
      [] c = "Q" -> "q" [] c = "R" -> "r" [] c = "S" -> "s" [] c = "T" -> "t"
      [] c = "U" -> "u" [] c = "V" -> "v" [] c = "W" -> "w" [] c = "X" -> "x"
      [] c = "Y" -> "y" [] c = "Z" -> "z" [] OTHER -> c

RECURSIVE toLowerCase(_)
toLowerCase(s) ==
    IF s = "" THEN ""
    ELSE lowerOf(SubSeq(s, 1, 1)) \o toLowerCase(SubSeq(s, 2, Len(s)))

RECURSIVE trimStart(_)
trimStart(s) ==
    IF s # "" /\ SubSeq(s, 1, 1) = " " THEN trimStart(SubSeq(s, 2, Len(s))) ELSE s

RECURSIVE trimEnd(_)
trimEnd(s) ==
    IF s # "" /\ SubSeq(s, Len(s), Len(s)) = " "
    THEN trimEnd(SubSeq(s, 1, Len(s) - 1)) ELSE s

trim(s) == trimEnd(trimStart(s))

\* String.prototype.includes
includes(s, t) ==
    \E i \in 1..(Len(s) - Len(t) + 1) : SubSeq(s, i, i + Len(t) - 1) = t

\* Array.prototype.includes
arrayIncludes(arr, v) == \E i \in 1..Len(arr) : arr[i] = v

\* arr.map(x => x.toLowerCase())
mapLower(arr) == [i \in 1..Len(arr) |-> toLowerCase(arr[i])]

\* arr.some(x => x.includes(t))
someIncludes(arr, t) == \E i \in 1..Len(arr) : includes(arr[i], t)

Min(a, b) == IF a < b THEN a ELSE b

\* Math.round on a count of 1e-4 dollars, giving whole dollars
mathRound(x) == (x + 5000) \div 10000

\* parseFloat(score.toFixed(2)) on a raw score (1e-6), giving hundredths:
\* toFixed rounds the magnitude to the nearest hundredth, a tie upwards
toFixed2(x) ==
    IF x >= 0 THEN (x + 5000) \div 10000 ELSE -((-x + 5000) \div 10000)

\* ------------------------------------------------------------------
\*  Utility functions
\* ------------------------------------------------------------------

\* map[range] || 0
mapCreditScore(range) ==
    LET r == orEmpty(range) IN
    CASE r = "poor" -> Num(550)
      [] r = "fair" -> Num(630)
      [] r = "good" -> Num(700)
      [] r = "very_good" -> Num(740)
      [] r = "excellent" -> Num(800)
      [] r \in ObjectPrototypeKeys -> NotANumber
      [] OTHER -> Num(0)

\* mutant: the default maximum is twice the baseline
getPointValue_double(effort, base, max) ==
    LET baseline == IF base # None /\ base[1] > 0 THEN base[1] ELSE 100
        maxVal == IF max # None /\ max[1] > 0 THEN max[1] ELSE baseline * 2
        e == orEmpty(effort)
    IN CASE e = "yes" -> maxVal
         [] e = "sometimes" -> (baseline + maxVal) \div 2
         [] OTHER -> baseline

\* base and max are optional numbers (1e-4 $ per point); 0.01 is 100.
\* The halvings are exact for the even point values the model draws.
getPointValue(effort, base, max) ==
    LET baseline == IF base # None /\ base[1] > 0 THEN base[1] ELSE 100
        maxVal == IF max # None /\ max[1] > 0 THEN max[1] ELSE (baseline * 3) \div 2
        e == orEmpty(effort)
    IN CASE e = "yes" -> maxVal
         [] e = "sometimes" -> (baseline + maxVal) \div 2
         [] OTHER -> baseline

KEYWORDS(key) ==
    CASE key = "dining" -> <<"dining", "restaurant", "restaurants", "food", "eating out">>
      [] key = "groceries" -> <<"grocery", "groceries", "supermarket", "super market">>
      [] key = "travel" -> <<"travel", "airfare", "airline", "airlines", "flight", "hotel", "lodging">>
      [] key = "gas" -> <<"gas", "fuel", "service station", "service stations">>
      [] key = "transit" -> <<"transit", "rideshare", "uber", "lyft", "bus", "train", "subway", "commuter">>
      [] key = "online" -> <<"online", "ecommerce", "e-commerce", "amazon", "digital">>
      [] key = "rent" -> <<"rent", "landlord", "mortgage">>
      [] key = "entertainment" -> <<"entertainment", "movies", "movie", "cinema", "concert", "sports", "streaming">>
      [] key = "utilities" -> <<"utilities", "utility", "phone", "internet", "cable", "water", "electric">>
      [] OTHER -> <<>>

\* the if / else-if chain that picks the keyword set of a spend label
keywordSetFor(lowerCategory) ==
    IF includes(lowerCategory, "dining") THEN KEYWORDS("dining")
    ELSE IF includes(lowerCategory, "grocery") THEN KEYWORDS("groceries")
    ELSE IF includes(lowerCategory, "travel") THEN KEYWORDS("travel")
    ELSE IF includes(lowerCategory, "gas") THEN KEYWORDS("gas")
    ELSE IF includes(lowerCategory, "transit") THEN KEYWORDS("transit")
    ELSE IF includes(lowerCategory, "online") THEN KEYWORDS("online")
    ELSE IF includes(lowerCategory, "rent") THEN KEYWORDS("rent")
    ELSE IF includes(lowerCategory, "entertainment") THEN KEYWORDS("entertainment")
    ELSE IF includes(lowerCategory, "utilities") THEN KEYWORDS("utilities")
    ELSE KEYWORDS("other")

\* the test a reward entry passes to take part in the best rate: its category
\* includes the label, or any keyword of the label's keyword set
entryMatches(cat, lowerCategory, keywordSet) ==
    \/ includes(cat, lowerCategory)
    \/ (Len(keywordSet) > 0
        /\ \E k \in 1..Len(keywordSet) : includes(cat, keywordSet[k]))

\* mutant: the last matching entry's rate replaces the best one
rateAfter_last(bestRate, r, cat, lowerCategory, keywordSet) ==
    IF cat = "" THEN bestRate
    ELSE IF entryMatches(cat, lowerCategory, keywordSet) /\ r.rate # None
         THEN r.rate[1]
         ELSE bestRate

\* the callback of rewards.forEach applied to entry r with lower-cased category cat
rateAfter(bestRate, r, cat, lowerCategory, keywordSet) ==
    IF cat = "" THEN bestRate
    ELSE IF entryMatches(cat, lowerCategory, keywordSet)
            /\ r.rate # None /\ r.rate[1] > bestRate
         THEN r.rate[1]
         ELSE bestRate

\* rewards.forEach: the best rate after entry i
RECURSIVE bestRateUpTo(_, _, _, _)
bestRateUpTo(rewards, lowerCategory, keywordSet, i) ==
    IF i = 0 THEN 0
    ELSE rateAfter(bestRateUpTo(rewards, lowerCategory, keywordSet, i - 1),
                   rewards[i], toLowerCase(orEmpty(rewards[i].category)),
                   lowerCategory, keywordSet)

isCatchAllName(c) == c = "catch_all" \/ c = "everything" \/ c = "all purchases"

isCatchAll(r) == isCatchAllName(toLowerCase(orEmpty(r.category)))

\* rewards.find(...) : the first catch-all entry, as <<>> or <<entry>>
findCatchAll(rewards) ==
    IF \E i \in 1..Len(rewards) : isCatchAll(rewards[i])
    THEN Some(rewards[CHOOSE j \in 1..Len(rewards) :
                          isCatchAll(rewards[j])
                          /\ \A k \in 1..(j - 1) : ~isCatchAll(rewards[k])])
    ELSE None

\* the two fallbacks: the catch-all entry when nothing matched, then 1
fallbackRate(matched, catchAll) ==
    LET bestRate == IF matched = 0 /\ catchAll # None /\ catchAll[1].rate # None
                    THEN catchAll[1].rate[1]
                    ELSE matched
    IN IF bestRate = 0 THEN 1 ELSE bestRate

matchedRate(rewards, lowerCategory) ==
    bestRateUpTo(rewards, lowerCategory, keywordSetFor(lowerCategory), Len(rewards))

getRewardRateForCategory(rewards, categoryName) ==
    IF Len(rewards) = 0 THEN 1
    ELSE fallbackRate(matchedRate(rewards, toLowerCase(categoryName)),
                      findCatchAll(rewards))

\* (answers.spendGas || 0) + (answers.spendEVCharging || 0)
gasTotal(a) == Some(orZero(a.spendGas) + orZero(a.spendEVCharging))

spendMatrix(a) ==
    << <<"Groceries", a.spendGroceries>>,
       <<"Dining", a.spendDining>>,
       <<"Travel", a.spendTravel>>,
       <<"Gas", gasTotal(a)>>,
       <<"Transit", a.spendTransit>>,
       <<"Online Shopping", a.spendOnline>>,
       <<"Rent", a.spendRent>>,
       <<"Entertainment", a.spendEntertainment>>,
       <<"Utilities", a.spendUtilities>>,
       <<"Other", a.spendOther>> >>

\* the callback of spendMatrix.forEach
totalAfter(total, rewards, label, amt, pointValue) ==
    IF amt = 0 THEN total
    ELSE total + amt * getRewardRateForCategory(rewards, label) * pointValue

RECURSIVE yearlyTotalUpTo(_, _, _, _)
yearlyTotalUpTo(rewards, matrix, pointValue, i) ==
    IF i = 0 THEN 0
    ELSE totalAfter(yearlyTotalUpTo(rewards, matrix, pointValue, i - 1),
                    rewards, matrix[i][1], orZero(matrix[i][2]), pointValue)

\* dollars per year, as a count of 1e-4 dollars
estimateYearlyRewards(card, a, pointValue) ==
    yearlyTotalUpTo(card.rewards, spendMatrix(a), pointValue, 10)

normalizeGoalTag(g) ==
    LET gL == toLowerCase(g) IN
    IF includes(gL, "cash") THEN "cashback"
    ELSE IF includes(gL, "travel") \/ includes(gL, "miles") \/ includes(gL, "airline")
         THEN "points_miles"
    ELSE IF includes(gL, "premium") \/ includes(gL, "luxury") \/ includes(gL, "status")
            \/ includes(gL, "high_spender")
         THEN "maximize_value"
    ELSE IF includes(gL, "build") \/ includes(gL, "starter") \/ includes(gL, "secured")
         THEN "credit_building"
    ELSE IF includes(gL, "low_interest") \/ includes(gL, "0%") \/ includes(gL, "balance")
         THEN "low_interest"
    ELSE gL

normalizeGoalTags(goals) == [i \in 1..Len(goals) |-> normalizeGoalTag(goals[i])]

\* ------------------------------------------------------------------
\*  Scoring helpers (each returns a count of 1e-6 score points)
\* ------------------------------------------------------------------

scoreGoalMatch(card, a) ==
    LET goal == orEmpty(a.goal)
        cardGoals == normalizeGoalTags(card.recommended_goals)
    IN IF goal = "" THEN 0
       ELSE IF arrayIncludes(cardGoals, goal) THEN 1500000
       ELSE IF (goal = "maximize_value" /\ arrayIncludes(cardGoals, "points_miles"))
               \/ (goal = "points_miles" /\ arrayIncludes(cardGoals, "maximize_value"))
               \/ (goal = "low_interest" /\ arrayIncludes(cardGoals, "low_interest"))
            THEN 800000
       ELSE 300000

\* mutant: the two values of the no_fee branch change places
scoreAnnualFeePreference_swapped(card, a) ==
    LET fee == orZero(card.annual_fee)
        pref == orEmpty(a.annualFee)
    IN IF pref = "" THEN 0
       ELSE IF pref = "no_fee" THEN (IF fee = 0 THEN 100000 ELSE 1200000)
       ELSE 0

scoreAnnualFeePreference(card, a) ==
    LET fee == orZero(card.annual_fee)
        pref == orEmpty(a.annualFee)
    IN IF pref = "" THEN 0
       ELSE IF pref = "no_fee" THEN (IF fee = 0 THEN 1200000 ELSE 100000)
       ELSE IF pref = "small_fee"
            THEN (IF fee = 0 THEN 800000
                  ELSE IF fee > 0 /\ fee <= 100 THEN 1000000
                  ELSE 200000)
       ELSE IF pref = "premium"
            THEN (IF fee >= 400 THEN 1000000
                  ELSE IF fee >= 95 THEN 700000
                  ELSE 200000)
       ELSE 0

\* foreign.includes("no") || foreign.includes("none") || foreign.includes("0%")
noForeignFee(card) ==
    LET foreign == toLowerCase(orEmpty(card.foreign_fees))
    IN includes(foreign, "no") \/ includes(foreign, "none") \/ includes(foreign, "0%")

scoreTravelFit(card, a) ==
    LET freq == orEmpty(a.travelFrequency)
        hasTravelRewards ==
            \E i \in 1..Len(card.rewards) :
                includes(toLowerCase(orEmpty(card.rewards[i].category)), "travel")
        hasPartners == Len(card.transfer_partners) > 0
        noFX == noForeignFee(card)
        \* base in tenths, bonus in tenths: base * (1 + bonus) in hundredths
        base == CASE freq = "rarely" -> 2
                  [] freq = "occasionally" -> 6
                  [] freq = "frequently" -> 10
                  [] OTHER -> 0
        bonus == (IF hasTravelRewards THEN 5 ELSE 0)
                 + (IF hasPartners THEN 4 ELSE 0)
                 + (IF noFX THEN 4 ELSE 0)
    IN IF freq = "" THEN Num(0)
       ELSE IF freq \in ObjectPrototypeKeys THEN NotANumber
       ELSE Num(base * (10 + bonus) * 10000)

\* the contribution of one selected perk tag
perkScore(p, benefits, manual, card) ==
    LET pL == toLowerCase(p)
        has(t) == someIncludes(benefits, t)
    IN CASE pL = "lounge_access" ->
              IF has("lounge") \/ has("priority pass") THEN 800000 ELSE 0
         [] pL = "travel_insurance" ->
              IF has("travel insurance") \/ has("trip cancellation")
                 \/ has("trip interruption") THEN 600000 ELSE 0
         [] pL = "rental_car" ->
              IF has("rental car") \/ has("collision damage") THEN 400000 ELSE 0
         [] pL = "cell_phone" ->
              IF has("cell phone") \/ has("phone protection") THEN 500000 ELSE 0
         [] pL = "extended_warranty" ->
              IF has("extended warranty") THEN 400000 ELSE 0
         [] pL = "purchase_protection" ->
              IF has("purchase protection") THEN 400000 ELSE 0
         [] pL = "no_foreign_fees" ->
              IF noForeignFee(card) THEN 600000 ELSE 0
         [] pL = "credits" ->
              IF has("credit") \/ has("statement credit") THEN 500000 ELSE 0
         [] pL = "elite_status" ->
              IF has("elite") \/ has("gold status") \/ has("platinum status")
              THEN 500000 ELSE 0
         [] pL = "cashback_portal" ->
              IF someIncludes(manual, "shopping portal")
                 \/ someIncludes(manual, "cashback portal") THEN 400000 ELSE 0
         [] pL = "airport_parking" ->
              IF has("airport parking") THEN 300000 ELSE 0
         [] OTHER -> 0

RECURSIVE perksTotalUpTo(_, _, _, _, _)
perksTotalUpTo(perks, benefits, manual, card, i) ==
    IF i = 0 THEN 0
    ELSE perksTotalUpTo(perks, benefits, manual, card, i - 1)
         + perkScore(perks[i], benefits, manual, card)

\* (card.quiz_metadata && card.quiz_metadata.manual_tags) || []
manualTags(card) ==
    IF card.quiz_metadata = None THEN <<>> ELSE card.quiz_metadata[1].manual_tags

\* mutant: the sum of the perk contributions is returned without the cap
scorePerks_uncapped(card, a) ==
    IF Len(a.perks) = 0 \/ arrayIncludes(a.perks, "none") THEN 0
    ELSE perksTotalUpTo(a.perks, mapLower(card.credits_and_benefits),
                        mapLower(manualTags(card)), card, Len(a.perks))

scorePerks(card, a) ==
    LET perks == a.perks
        benefits == mapLower(card.credits_and_benefits)
        manual == mapLower(manualTags(card))
    IN IF Len(perks) = 0 \/ arrayIncludes(perks, "none") THEN 0
       ELSE Min(perksTotalUpTo(perks, benefits, manual, card, Len(perks)), 2000000)

\* mutant: any strategy other than minimalist and optimizer counts as balanced
scoreCardStrategy_fallback(card, a) ==
    LET strategy == orEmpty(a.cardStrategy)
        synergy == card.pairing_synergy
    IN IF strategy = "minimalist" THEN (IF Len(synergy) = 0 THEN 1000000 ELSE 500000)
       ELSE IF strategy = "optimizer" THEN (IF Len(synergy) > 0 THEN 1000000 ELSE 600000)
       ELSE IF strategy = "" THEN 0
       ELSE 800000

scoreCardStrategy(card, a) ==
    LET strategy == orEmpty(a.cardStrategy)
        synergy == card.pairing_synergy
    IN IF strategy = "minimalist" THEN (IF Len(synergy) = 0 THEN 1000000 ELSE 500000)
       ELSE IF strategy = "optimizer" THEN (IF Len(synergy) > 0 THEN 1000000 ELSE 600000)
       ELSE IF strategy = "balanced" THEN 800000
       ELSE 0

\* mutant: an unwanted business card loses half a point
scoreBusinessPreference_mild(card, a) ==
    LET wants == orEmpty(a.businessCards)
        isBiz == card.is_business = Some(TRUE)
    IN IF wants = "no" /\ isBiz THEN -500000
       ELSE IF wants = "yes" /\ isBiz THEN 1000000
       ELSE IF wants = "open_to_both" /\ isBiz THEN 400000
       ELSE 100000

\* mutant: the fall-through value of the first generation of the engine (0.2)
scoreBusinessPreference_v1(card, a) ==
    LET wants == orEmpty(a.businessCards)
        isBiz == card.is_business = Some(TRUE)
    IN IF wants = "no" /\ isBiz THEN -5000000
       ELSE IF wants = "yes" /\ isBiz THEN 1000000
       ELSE 200000

scoreBusinessPreference(card, a) ==
    LET wants == orEmpty(a.businessCards)
        isBiz == card.is_business = Some(TRUE)
    IN IF wants = "no" /\ isBiz THEN -5000000
       ELSE IF wants = "yes" /\ isBiz THEN 1000000
       ELSE IF wants = "open_to_both" /\ isBiz THEN 400000
       ELSE 100000

scoreLowInterest(card, a) ==
    LET intro == toLowerCase(orEmpty(card.intro_apr))
        ongoing == toLowerCase(orEmpty(card.ongoing_apr))
    IN IF a.goal # Some("low_interest") THEN 0
       ELSE (IF includes(intro, "0%") THEN 1500000 ELSE 0)
            + (IF includes(intro, "balance") \/ includes(intro, "transfer")
               THEN 1000000 ELSE 0)
            + (IF includes(ongoing, "14") \/ includes(ongoing, "15") THEN 400000 ELSE 0)

\* the callback of airlinePrefs.forEach: acc is [score, reasons]
airlineAfter(acc, a, aL, partners) ==
    IF aL = "international"
    THEN IF Len(partners) > 0
         THEN [score |-> acc.score + 1000000,
               reasons |-> Append(acc.reasons,
                   "Good airline transfer partners for international travel")]
         ELSE acc
    ELSE IF someIncludes(partners, aL)
         THEN [score |-> acc.score + 1500000,
               reasons |-> Append(acc.reasons,
                   "Strong match for your preferred airline (" \o a \o ")")]
         ELSE acc

RECURSIVE airlineUpTo(_, _, _, _)
airlineUpTo(airlinePrefs, partners, acc0, i) ==
    IF i = 0 THEN acc0
    ELSE airlineAfter(airlineUpTo(airlinePrefs, partners, acc0, i - 1),
                      airlinePrefs[i], toLowerCase(airlinePrefs[i]), partners)

\* the callback of hotelPrefs.forEach
hotelAfter(acc, h, hL, partners, benefits) ==
    IF someIncludes(partners, hL)
       \/ someIncludes(benefits, hL) \/ someIncludes(benefits, "free night")
    THEN [score |-> acc.score + 1200000,
          reasons |-> Append(acc.reasons,
              "Strong match for your preferred hotel chain (" \o h \o ")")]
    ELSE acc

RECURSIVE hotelUpTo(_, _, _, _, _)
hotelUpTo(hotelPrefs, partners, benefits, acc0, i) ==
    IF i = 0 THEN acc0
    ELSE hotelAfter(hotelUpTo(hotelPrefs, partners, benefits, acc0, i - 1),
                    hotelPrefs[i], toLowerCase(hotelPrefs[i]), partners, benefits)

notNone(x) == x # "none"

\* Math.min(score, cap) on a [score, reasons] pair
capped(acc, cap) == [score |-> Min(acc.score, cap), reasons |-> acc.reasons]

airlineHotelFrom(airlinePrefs, hotelPrefs, partners, benefits, reasons) ==
    hotelUpTo(hotelPrefs, partners, benefits,
              airlineUpTo(airlinePrefs, partners,
                          [score |-> 0, reasons |-> reasons], Len(airlinePrefs)),
              Len(hotelPrefs))

\* mutant: the airline and hotel matches are summed without the cap
scoreAirlineHotel_uncapped(card, a, reasons) ==
    airlineHotelFrom(SelectSeq(a.airline, notNone), SelectSeq(a.hotel, notNone),
                     mapLower(card.transfer_partners),
                     mapLower(card.credits_and_benefits), reasons)

\* returns [score, reasons]: the capped contribution and `reasons` after the pushes
scoreAirlineHotel(card, a, reasons) ==
    capped(airlineHotelFrom(SelectSeq(a.airline, notNone), SelectSeq(a.hotel, notNone),
                            mapLower(card.transfer_partners),
                            mapLower(card.credits_and_benefits), reasons),
           4000000)

\* one of the three merchant blocks: acc is [score, reasons], the reason is
\* `${before}${rate}${after}`, miss is what a rate of 1 costs
merchantBlock(acc, hasPref, rate, before, after, miss) ==
    IF ~hasPref THEN acc
    ELSE IF rate > 1
         THEN [score |-> acc.score + (rate - 1) * 700000,
               reasons |-> Append(acc.reasons, before \o ToString(rate) \o after)]
         ELSE [score |-> acc.score - miss, reasons |-> acc.reasons]

hasRealGroceryPref(a) ==
    \E i \in 1..Len(a.grocery) : a.grocery[i] # "other" /\ a.grocery[i] # "none"

hasRealGasPref(a) == \E i \in 1..Len(a.gas) : a.gas[i] # "none"

hasRealOnlinePref(a) == \E i \in 1..Len(a.onlineShopping) : a.onlineShopping[i] # "none"

\* returns [score, reasons]
scoreMerchantPreferences(card, a, reasons) ==
    capped(
      merchantBlock(
        merchantBlock(
          merchantBlock([score |-> 0, reasons |-> reasons],
                        hasRealGroceryPref(a),
                        getRewardRateForCategory(card.rewards, "Groceries"),
                        "Great for your grocery spending (", "x on groceries)", 400000),
          hasRealGasPref(a),
          getRewardRateForCategory(card.rewards, "Gas"),
          "Strong rewards on gas/EV spending (", "x)", 300000),
        hasRealOnlinePref(a),
        getRewardRateForCategory(card.rewards, "Online Shopping"),
        "Well-suited for your online shopping (", "x)", 300000),
      5000000)

\* (quizMeta.region_priority || "").toLowerCase()
regionPriorityOf(card) ==
    IF card.quiz_metadata = None THEN ""
    ELSE toLowerCase(orEmpty(card.quiz_metadata[1].region_priority))

regionBoostFrom(regions, regionPriority, userStateLower) ==
    IF userStateLower = "" THEN 0
    ELSE (IF arrayIncludes(regions, userStateLower) THEN 500000 ELSE 0)
         + (IF regionPriority = userStateLower THEN 500000 ELSE 0)

scoreRegionBoost(card, userStateLower) ==
    regionBoostFrom(mapLower(card.available_regions), regionPriorityOf(card),
                    userStateLower)

\* ------------------------------------------------------------------
\*  Quiz-metadata alignment (the engine variant with scoreQuizMetadata)
\* ------------------------------------------------------------------

\* Array.isArray(quizMeta.recommended_for) ? ....map(x => x.toLowerCase()) : []
recommendedFor(card) ==
    IF card.quiz_metadata = None THEN <<>>
    ELSE mapLower(card.quiz_metadata[1].recommended_for)

\* new Set([...recommendedFor, ...manualTags])
quizTags(card) ==
    LET all == recommendedFor(card) \o mapLower(manualTags(card))
    IN {all[i] : i \in 1..Len(all)}

\* the profile built out of the quiz answers, in the order of the pushes
userTags(a) ==
    (IF a.creditScore \in {Some("poor"), Some("fair")}
     THEN <<"beginner", "rebuilding">> ELSE <<>>)
    \o (IF a.creditScore \in {Some("good"), Some("very_good")}
        THEN <<"intermediate">> ELSE <<>>)
    \o (IF a.creditScore = Some("excellent") THEN <<"advanced">> ELSE <<>>)
    \o (IF orEmpty(a.goal) # "" THEN <<a.goal[1]>> ELSE <<>>)
    \o (IF a.travelFrequency = Some("frequently") THEN <<"frequent_traveler">> ELSE <<>>)
    \o (IF a.travelFrequency = Some("occasionally") THEN <<"casual_traveler">> ELSE <<>>)
    \o (IF a.businessCards = Some("yes") THEN <<"business_friendly">> ELSE <<>>)
    \o (IF a.cardStrategy = Some("optimizer") THEN <<"optimizer">> ELSE <<>>)

\* userTags.forEach(t => { if (tags.has(t)) matches++ })
quizMatches(tags, ut) == Cardinality({i \in 1..Len(ut) : ut[i] \in tags})

\* mutant: 0.4 per match without the cap
quizScoreFrom_uncapped(tags, matches) ==
    IF tags = {} THEN 0
    ELSE IF matches = 0 THEN 100000
    ELSE matches * 400000

quizScoreFrom(tags, matches) ==
    IF tags = {} THEN 0
    ELSE IF matches = 0 THEN 100000
    ELSE Min(1500000, matches * 400000)

scoreQuizMetadata(card, a) ==
    quizScoreFrom(quizTags(card), quizMatches(quizTags(card), userTags(a)))

\* mutant: a user exactly at the minimum score is in the band below
approvalComfort_strict(minScore, userScoreNumeric) ==
    IF minScore # None /\ minScore[1] # 0
       /\ userScoreNumeric.number /\ userScoreNumeric.value > 0
    THEN LET diff == userScoreNumeric.value - minScore[1]
         IN [score |-> IF diff >= 30 THEN 2000000
                       ELSE IF diff >= 10 THEN 1500000
                       ELSE IF diff > 0 THEN 1000000
                       ELSE IF diff >= -10 THEN 400000
                       ELSE 100000,
             reasons |-> IF diff >= 0
                         THEN <<"You're likely to qualify based on your credit score range">>
                         ELSE <<"May be harder to qualify given your current credit score range">>]
    ELSE [score |-> 0, reasons |-> <<>>]

\* the approval-comfort block of the engine variant: what it adds to the score
\* (1e-6 points) and the reasons it pushes (the typographic apostrophe of the
\* first reason is written ')
approvalComfort(minScore, userScoreNumeric) ==
    IF minScore # None /\ minScore[1] # 0
       /\ userScoreNumeric.number /\ userScoreNumeric.value > 0
    THEN LET diff == userScoreNumeric.value - minScore[1]
         IN [score |-> IF diff >= 30 THEN 2000000
                       ELSE IF diff >= 10 THEN 1500000
                       ELSE IF diff >= 0 THEN 1000000
                       ELSE IF diff >= -10 THEN 400000
                       ELSE 100000,
             reasons |-> IF diff >= 0
                         THEN <<"You're likely to qualify based on your credit score range">>
                         ELSE <<"May be harder to qualify given your current credit score range">>]
    ELSE [score |-> 0, reasons |-> <<>>]

\* the forEach callback of the engine variant up to the approval-comfort block:
\* <<>> for a card the filters skip, else the block's contribution
approvalOf(card, a) ==
    IF \/ card.visibility = Some(FALSE)
       \/ (orEmpty(card.availability_status) # ""
           /\ card.availability_status # Some("active"))
       \/ (card.min_credit_score # None /\ card.min_credit_score[1] # 0
           /\ mapCreditScore(a.creditScore).number
           /\ mapCreditScore(a.creditScore).value > 0
           /\ mapCreditScore(a.creditScore).value + 20 < card.min_credit_score[1])
    THEN None
    ELSE Some(approvalComfort(card.min_credit_score, mapCreditScore(a.creditScore)))

\* ------------------------------------------------------------------
\*  Main engine
\* ------------------------------------------------------------------

\* mutant: the state is lower-cased but not trimmed
userStateOf_noTrim(a) == toLowerCase(orEmpty(a.state))

\* (answers.state || "").trim().toLowerCase()
userStateOf(a) == toLowerCase(trim(orEmpty(a.state)))

\* mutant: the "national" marker is not recognised
isNational_noMarker(regions) ==
    Len(regions) = 0
    \/ arrayIncludes(regions, "us")
    \/ arrayIncludes(regions, "united states")

isNational(regions) ==
    Len(regions) = 0
    \/ arrayIncludes(regions, "us")
    \/ arrayIncludes(regions, "united states")
    \/ arrayIncludes(regions, "national")

\* the region and credit filters of the forEach callback
filtersSkip(regions, minScore, userState, userScoreNumeric, leeway) ==
    \/ (IF userState = "" THEN ~isNational(regions)
        ELSE ~isNational(regions) /\ ~arrayIncludes(regions, userState))
    \/ (minScore # None /\ minScore[1] # 0
        /\ userScoreNumeric.number
        /\ userScoreNumeric.value > 0 /\ userScoreNumeric.value + leeway < minScore[1])

regionOrCreditSkip(card, a, leeway) ==
    filtersSkip(mapLower(card.available_regions), card.min_credit_score,
                userStateOf(a), mapCreditScore(a.creditScore), leeway)

\* mutant: only visibility === false hides a card, availability_status is not read
skipped_statusIgnored(card, a) ==
    card.visibility = Some(FALSE) \/ regionOrCreditSkip(card, a, 20)

\* mutant: the credit filter has no 20-point leeway
skipped_noLeeway(card, a) ==
    \/ card.visibility = Some(FALSE)
    \/ (orEmpty(card.availability_status) # ""
        /\ card.availability_status # Some("active"))
    \/ regionOrCreditSkip(card, a, 0)

\* TRUE when the forEach callback returns early for this card
skipped(card, a) ==
    \/ card.visibility = Some(FALSE)
    \/ (orEmpty(card.availability_status) # ""
        /\ card.availability_status # Some("active"))
    \/ regionOrCreditSkip(card, a, 20)

\* sign_up_bonus && typeof sign_up_bonus.value_estimate === "number" ? ... : 0
bonusValueOf(card) ==
    IF card.sign_up_bonus # None THEN orZero(card.sign_up_bonus[1].value_estimate) ELSE 0

\* mutant: a card without a fee gets no reason about the fee
valueReasons_feeOnly(yearlyRewards, bonusValue, annualFee) ==
    (IF yearlyRewards > 0
     THEN <<"Estimated ~$" \o ToString(mathRound(yearlyRewards)) \o " in yearly rewards">>
     ELSE <<>>)
    \o (IF bonusValue > 0
        THEN <<"Intro bonus worth about $" \o ToString(bonusValue)>>
        ELSE <<>>)
    \o (IF annualFee > 0
        THEN <<"Annual fee: $" \o ToString(annualFee)>>
        ELSE <<>>)

\* the three value reasons, in the order they are pushed
valueReasons(yearlyRewards, bonusValue, annualFee) ==
    (IF yearlyRewards > 0
     THEN <<"Estimated ~$" \o ToString(mathRound(yearlyRewards)) \o " in yearly rewards">>
     ELSE <<>>)
    \o (IF bonusValue > 0
        THEN <<"Intro bonus worth about $" \o ToString(bonusValue)>>
        ELSE <<>>)
    \o (IF annualFee > 0
        THEN <<"Annual fee: $" \o ToString(annualFee)>>
        ELSE <<"No annual fee">>)

\* the value part of the forEach body: [score, reasons] with score = netFirstYear / 100
\* (yearlyRewards counts 1e-4 dollars, and 1e-4 dollars / 100 = 1e-6 points)
\* mutant: the annual fee is not subtracted from the net first-year value
valueFrom_feeKept(yearlyRewards, bonusValue, annualFee) ==
    [score |-> yearlyRewards + bonusValue * 10000,
     reasons |-> valueReasons(yearlyRewards, bonusValue, annualFee)]

valueFrom(yearlyRewards, bonusValue, annualFee) ==
    [score |-> yearlyRewards + (bonusValue - annualFee) * 10000,
     reasons |-> valueReasons(yearlyRewards, bonusValue, annualFee)]

valueOf(card, a) ==
    valueFrom(estimateYearlyRewards(card, a,
                  getPointValue(a.redemption_value, card.point_value_baseline,
                                card.point_value_max)),
              bonusValueOf(card), orZero(card.annual_fee))

\* the quiz-based adjustments that push no reason
quizAdjustments(card, a) ==
    scoreGoalMatch(card, a)
    + scoreAnnualFeePreference(card, a)
    + scoreTravelFit(card, a).value
    + scorePerks(card, a)
    + scoreCardStrategy(card, a)
    + scoreBusinessPreference(card, a)
    + scoreLowInterest(card, a)

\* score += ... for the pieces value, air and merch, then the region boost
sumOf(card, a, value, air, merch) ==
    [score |-> value.score + quizAdjustments(card, a) + air.score + merch.score
               + scoreRegionBoost(card, userStateOf(a)),
     reasons |-> merch.reasons]

withMerchant(card, a, value, air) ==
    sumOf(card, a, value, air, scoreMerchantPreferences(card, a, air.reasons))

withAirline(card, a, value) ==
    withMerchant(card, a, value, scoreAirlineHotel(card, a, value.reasons))

\* the body of the forEach callback past the filters: [score, reasons] before
\* rounding and truncation (score in 1e-6 points, every reason pushed)
scoreCard(card, a) == withAirline(card, a, valueOf(card, a))

\* mutant: no truncation of the reasons
slice6_all(reasons) == reasons

\* reasons.slice(0, 6)
slice6(reasons) == SubSeq(reasons, 1, Min(Len(reasons), 6))

\* { ...card, score: finalScore, reasons: reasons.slice(0, 6) }
resultFrom(card, sc) ==
    [score |-> toFixed2(sc.score), reasons |-> slice6(sc.reasons)] @@ card

\* a travel fit that is NaN makes the score NaN from line 853 on, and
\* parseFloat(NaN.toFixed(2)) is NaN
resultOf(card, a) ==
    IF scoreTravelFit(card, a).number
    THEN resultFrom(card, scoreCard(card, a))
    ELSE [resultFrom(card, scoreCard(card, a)) EXCEPT !.score = NotANumber]

\* mutant: the callback pushes the result of a card twice
pushAfter_twice(before, card, a) ==
    IF skipped(card, a) THEN before
    ELSE Append(Append(before, resultOf(card, a)), resultOf(card, a))

\* the forEach callback
pushAfter(before, card, a) ==
    IF skipped(card, a) THEN before ELSE Append(before, resultOf(card, a))

\* cards.forEach(...): the results pushed after the first i cards
RECURSIVE pushedUpTo(_, _, _)
pushedUpTo(cs, a, i) ==
    IF i = 0 THEN <<>> ELSE pushAfter(pushedUpTo(cs, a, i - 1), cs[i], a)

\* mutant: the comparator sorts ascending
compareScore_ascending(x, y) == x.score - y.score

\* the comparator (a, b) => b.score - a.score
compareScore(x, y) == y.score - x.score

\* mutant: an unstable sort, x goes before the elements it ties with
insertSorted_unstable(sorted, x) ==
    LET keep == {k \in 0..Len(sorted) :
                    \A j \in 1..k : compareScore(sorted[j], x) < 0}
        k == CHOOSE m \in keep : \A n \in keep : n <= m
    IN SubSeq(sorted, 1, k) \o <<x>> \o SubSeq(sorted, k + 1, Len(sorted))

\* Array.prototype.sort is stable: x goes after every element it does not beat
insertSorted(sorted, x) ==
    LET keep == {k \in 0..Len(sorted) :
                    \A j \in 1..k : compareScore(sorted[j], x) <= 0}
        k == CHOOSE m \in keep : \A n \in keep : n <= m
    IN SubSeq(sorted, 1, k) \o <<x>> \o SubSeq(sorted, k + 1, Len(sorted))

RECURSIVE sortResults(_, _)
sortResults(rs, i) ==
    IF i = 0 THEN <<>> ELSE insertSorted(sortResults(rs, i - 1), rs[i])

sortAll(pushed) == sortResults(pushed, Len(pushed))

\* every score is NaN or none is (the travel fit is NaN by the answer alone);
\* the comparator then returns NaN for every pair, which sort reads as +0, and
\* the stable sort leaves the results in the order pushed
scoreCards(cs, a) ==
    IF orEmpty(a.travelFrequency) \in ObjectPrototypeKeys
    THEN pushedUpTo(cs, a, Len(cs))
    ELSE sortAll(pushedUpTo(cs, a, Len(cs)))

\* ------------------------------------------------------------------
\*  Inputs
\* ------------------------------------------------------------------

\* the longest card list drawn
MaxCards == 2

\* a card row with every optional column absent
BaseCard ==
    [id |-> 0, name |-> "Card",
     visibility |-> None, availability_status |-> None,
     available_regions |-> <<>>, quiz_metadata |-> None,
     min_credit_score |-> None,
     point_value_baseline |-> None, point_value_max |-> None,
     rewards |-> <<>>, sign_up_bonus |-> None, annual_fee |-> None,
     recommended_goals |-> <<>>, foreign_fees |-> None,
     transfer_partners |-> <<>>, credits_and_benefits |-> <<>>,
     pairing_synergy |-> <<>>, is_business |-> None,
     intro_apr |-> None, ongoing_apr |-> None]

\* a request body with every key absent
BaseAnswers ==
    [state |-> None, creditScore |-> None, redemption_value |-> None,
     spendGroceries |-> None, spendDining |-> None, spendTravel |-> None,
     spendGas |-> None, spendEVCharging |-> None, spendTransit |-> None,
     spendOnline |-> None, spendRent |-> None, spendEntertainment |-> None,
     spendUtilities |-> None, spendOther |-> None,
     goal |-> None, annualFee |-> None, travelFrequency |-> None,
     perks |-> <<>>, cardStrategy |-> None, businessCards |-> None,
     airline |-> <<>>, hotel |-> <<>>,
     grocery |-> <<>>, gas |-> <<>>, onlineShopping |-> <<>>]

\* the rows of the cards table: up to MaxCards cards of U, the id being the position
CardLists(U) ==
    UNION {{[i \in 1..n |-> [f[i] EXCEPT !.id = i]] : f \in [1..n -> U]} : n \in 0..MaxCards}

\* a card row with every optional column present, reward entries with a null
\* category or a null rate among them
FullCard ==
    [id |-> 0, name |-> "Card",
     visibility |-> Some(TRUE), availability_status |-> Some("active"),
     available_regions |-> <<"Utah", "US">>,
     quiz_metadata |-> Some([manual_tags |-> <<"Cashback Portal">>,
                             region_priority |-> Some("Utah")]),
     min_credit_score |-> Some(700),
     point_value_baseline |-> Some(100), point_value_max |-> Some(200),
     rewards |-> <<[category |-> Some("Travel"), rate |-> Some(3)],
                   [category |-> None, rate |-> Some(5)],
                   [category |-> Some("Everything"), rate |-> None]>>,
     sign_up_bonus |-> Some([value_estimate |-> Some(200)]), annual_fee |-> Some(95),
     recommended_goals |-> <<"Cash back">>, foreign_fees |-> Some("None"),
     transfer_partners |-> <<"Delta">>, credits_and_benefits |-> <<"Lounge", "Free night">>,
     pairing_synergy |-> <<"Freedom">>, is_business |-> Some(TRUE),
     intro_apr |-> Some("0% for 15 months"), ongoing_apr |-> Some("15.99%")]

\* a request body with every key present
FullAnswers ==
    [state |-> Some("Utah"), creditScore |-> Some("good"),
     redemption_value |-> Some("sometimes"),
     spendGroceries |-> Some(500), spendDining |-> Some(100), spendTravel |-> Some(100),
     spendGas |-> Some(100), spendEVCharging |-> Some(100), spendTransit |-> Some(100),
     spendOnline |-> Some(100), spendRent |-> Some(100), spendEntertainment |-> Some(100),
     spendUtilities |-> Some(100), spendOther |-> Some(100),
     goal |-> Some("low_interest"), annualFee |-> Some("small_fee"),
     travelFrequency |-> Some("frequently"),
     perks |-> <<"lounge_access", "cashback_portal">>,
     cardStrategy |-> Some("optimizer"), businessCards |-> Some("yes"),
     airline |-> <<"Delta">>, hotel |-> <<"Hyatt">>,
     grocery |-> <<"Costco">>, gas |-> <<"Shell">>, onlineShopping |-> <<"Amazon">>]

\* req.body when no body was parsed: not an object, reading a key of it throws
Undefined == [undefined |-> TRUE]

\* a request: the rows read and the body received, nothing scored yet
InitWith(U, A) ==
    /\ cards \in CardLists(U)
    /\ answers \in A
    /\ results = <<>>
    /\ ret = <<>>
    /\ pc = "idle"
    /\ db = <<>>

\* ------------------------------------------------------------------
\*  Operations
\* ------------------------------------------------------------------

\* mutant: score and reasons are assigned to the card objects and the input
\* array itself is sorted
ScoreCards_inPlace ==
    /\ pc = "idle"
    /\ results' = scoreCards(cards, answers)
    /\ cards' = results'
    /\ pc' = "done"
    /\ UNCHANGED <<answers, ret, db>>

\* mutant: quiz_metadata is read without the `|| {}` guard, so scoring a card
\* that has none throws once a state is given
scoreCardsThrows_unguardedMeta(cs, a) ==
    \/ a = Undefined
    \/ /\ a # Undefined
       /\ userStateOf(a) # ""
       /\ \E i \in 1..Len(cs) : ~skipped(cs[i], a) /\ cs[i].quiz_metadata = None

\* the TypeError of scoreCards: (answers.state || "") reads a key of answers
scoreCardsThrows(cs, a) == a = Undefined

\* const results = scoreCards(cards, answers): the call returns, or throws and
\* assigns nothing
ScoreCards ==
    /\ pc = "idle"
    /\ IF scoreCardsThrows(cards, answers)
       THEN results' = results /\ pc' = "threw"
       ELSE results' = scoreCards(cards, answers) /\ pc' = "done"
    /\ UNCHANGED <<cards, answers, ret, db>>

Next == ScoreCards

\* score += scoreAnnualFeePreference(card, answers), on its own: the contribution
\* of the fee preference for each card read
ApplyAnnualFeePreference ==
    /\ pc = "idle"
    /\ ret' = [i \in 1..Len(cards) |-> scoreAnnualFeePreference(cards[i], answers)]
    /\ pc' = "done"
    /\ UNCHANGED <<cards, answers, results, db>>

NextFee == ApplyAnnualFeePreference

\* score += scorePerks(card, answers), on its own
ApplyPerks ==
    /\ pc = "idle"
    /\ ret' = [i \in 1..Len(cards) |-> scorePerks(cards[i], answers)]
    /\ pc' = "done"
    /\ UNCHANGED <<cards, answers, results, db>>

\* score += scoreAirlineHotel(card, answers, reasons), on its own
ApplyAirlineHotel ==
    /\ pc = "idle"
    /\ ret' = [i \in 1..Len(cards) |-> scoreAirlineHotel(cards[i], answers, <<>>).score]
    /\ pc' = "done"
    /\ UNCHANGED <<cards, answers, results, db>>

\* const rate = getRewardRateForCategory(rewards, label), on its own: the rate of
\* each card for the ten labels of the spend matrix, in its order
ApplyRewardRates ==
    /\ pc = "idle"
    /\ ret' = [i \in 1..Len(cards) |->
                 [k \in 1..Len(spendMatrix(answers)) |->
                     getRewardRateForCategory(cards[i].rewards, spendMatrix(answers)[k][1])]]
    /\ pc' = "done"
    /\ UNCHANGED <<cards, answers, results, db>>

\* const yearlyRewards = estimateYearlyRewards(card, answers, pointValue), on its
\* own, for each card read (1e-4 dollars)
ApplyYearlyRewards ==
    /\ pc = "idle"
    /\ ret' = [i \in 1..Len(cards) |->
                 estimateYearlyRewards(cards[i], answers,
                     getPointValue(answers.redemption_value,
                                   cards[i].point_value_baseline,
                                   cards[i].point_value_max))]
    /\ pc' = "done"
    /\ UNCHANGED <<cards, answers, results, db>>

\* const userScoreNumeric = mapCreditScore(answers.creditScore), on its own
ApplyMapCreditScore ==
    /\ pc = "idle"
    /\ ret' = <<mapCreditScore(answers.creditScore)>>
    /\ pc' = "done"
    /\ UNCHANGED <<cards, answers, results, db>>

\* const pointValue = getPointValue(...), on its own, for each card read
ApplyPointValue ==
    /\ pc = "idle"
    /\ ret' = [i \in 1..Len(cards) |->
                 getPointValue(answers.redemption_value, cards[i].point_value_baseline,
                               cards[i].point_value_max)]
    /\ pc' = "done"
    /\ UNCHANGED <<cards, answers, results, db>>

\* the filters and the approval-comfort block of the engine variant, for each
\* card read
ApplyApprovalComfort ==
    /\ pc = "idle"
    /\ ret' = [i \in 1..Len(cards) |-> approvalOf(cards[i], answers)]
    /\ pc' = "done"
    /\ UNCHANGED <<cards, answers, results, db>>

\* res.status(500).json({ error: "Scoring failed on the server." })
InternalError == [status |-> 500, body |-> [error |-> "Scoring failed on the server."]]

\* POST /score up to the await: the body and the pool are read and the query is
\* issued; with no pool set on the app, pool.query throws inside the try block
PostScore ==
    /\ pc = "idle"
    /\ \E hasPool \in BOOLEAN :
          IF hasPool
          THEN ret' = ret /\ pc' = "awaiting"
          ELSE ret' = Append(ret, InternalError) /\ pc' = "caught"
    /\ UNCHANGED <<cards, answers, results, db>>

\* mutant: a rejected query leaves the request without a response
QueryRejects_unhandled ==
    /\ pc = "awaiting"
    /\ pc' = "caught"
    /\ UNCHANGED <<cards, answers, results, ret, db>>

\* the query promise rejects: the await throws into the catch block
QueryRejects ==
    /\ pc = "awaiting"
    /\ ret' = Append(ret, InternalError)
    /\ pc' = "caught"
    /\ UNCHANGED <<cards, answers, results, db>>

\* the query promise resolves with the rows: scoreCards runs and its result is
\* sent by res.json(results) with status 200, or it throws into the catch block
QueryResolves ==
    /\ pc = "awaiting"
    /\ IF scoreCardsThrows(cards, answers)
       THEN /\ results' = results
            /\ ret' = Append(ret, InternalError)
            /\ pc' = "caught"
       ELSE /\ results' = scoreCards(cards, answers)
            /\ ret' = Append(ret, [status |-> 200, body |-> results'])
            /\ pc' = "returned"
    /\ UNCHANGED <<cards, answers, db>>

NextRoute == PostScore \/ QueryRejects \/ QueryResolves

\* the five adjustments driven by an enum answer, each on its own
ApplyEnumHeuristics ==
    /\ pc = "idle"
    /\ ret' = [i \in 1..Len(cards) |->
                 [goal |-> scoreGoalMatch(cards[i], answers),
                  annualFee |-> scoreAnnualFeePreference(cards[i], answers),
                  travelFrequency |-> scoreTravelFit(cards[i], answers),
                  cardStrategy |-> scoreCardStrategy(cards[i], answers),
                  businessCards |-> scoreBusinessPreference(cards[i], answers)]]
    /\ pc' = "done"
    /\ UNCHANGED <<cards, answers, results, db>>

\* score += scoreQuizMetadata(card, answers) of the engine variant that has the
\* heuristic, on its own
ApplyQuizMetadata ==
    /\ pc = "idle"
    /\ ret' = [i \in 1..Len(cards) |-> scoreQuizMetadata(cards[i], answers)]
    /\ pc' = "done"
    /\ UNCHANGED <<cards, answers, results, db>>

\* ------------------------------------------------------------------
\*  Visibility and availability (C1)
\* ------------------------------------------------------------------

VisCards ==
    {[BaseCard EXCEPT !.visibility = v, !.availability_status = s,
                      !.available_regions = r] :
        v \in {None, Some(TRUE), Some(FALSE)},
        s \in {None, Some("active"), Some("discontinued")},
        r \in {<<>>, <<"Utah">>}}

VisAnswers ==
    {[BaseAnswers EXCEPT !.state = st, !.businessCards = bz] :
        st \in {None, Some("Utah")},
        bz \in {None, Some("no")}}

InitVis == InitWith(VisCards, VisAnswers)

SpecVis == InitVis /\ [][Next]_vars

Done == pc = "done"

\* the result scoreCards returned for input card c, if any
InOutput(c) == \E i \in 1..Len(results) : results[i].id = c.id

Hidden(c) == c.visibility = Some(FALSE)

Inactive(c) == c.availability_status # None /\ c.availability_status # Some("active")

\* C1: no card whose visibility is false, or whose availability_status is
\* present and not "active", has a result in the output of scoreCards.
C1_HiddenInactiveExcluded ==
    Done => \A i \in 1..Len(cards) :
                (Hidden(cards[i]) \/ Inactive(cards[i])) => ~InOutput(cards[i])

\* a hidden card and an inactive card were scored, each in a state whose
\* region filter would have let it through, and neither was returned
C1_Witness ==
    /\ Done
    /\ Len(cards) = 2
    /\ Hidden(cards[1]) /\ ~Inactive(cards[1]) /\ cards[1].available_regions = <<>>
    /\ Inactive(cards[2]) /\ ~Hidden(cards[2]) /\ cards[2].available_regions = <<"Utah">>
    /\ answers.state = Some("Utah")
    /\ results = <<>>

\* ------------------------------------------------------------------
\*  Region filter (C2, C3)
\* ------------------------------------------------------------------

RegionCards ==
    {[BaseCard EXCEPT !.available_regions = r, !.availability_status = s] :
        r \in {<<>>, <<"US">>, <<"Texas", "NATIONAL">>, <<"United States">>,
               <<"Utah">>, <<"UTAH", "Idaho">>, <<" utah">>, <<"usa">>},
        s \in {None, Some("active")}}

RegionAnswers ==
    {[BaseAnswers EXCEPT !.state = st] :
        st \in {None, Some(""), Some("  "), Some("Utah"), Some(" uTaH "),
                Some("Texas"), Some("us"), Some("USA")}}

InitRegion == InitWith(RegionCards, RegionAnswers)

SpecRegion == InitRegion /\ [][Next]_vars

\* the claim's words: the region list is empty or holds a national marker
NationalCard(c) ==
    \/ c.available_regions = <<>>
    \/ \E i \in 1..Len(c.available_regions) :
           toLowerCase(c.available_regions[i]) \in {"us", "united states", "national"}

Visible(c) == ~Hidden(c)

Active(c) == ~Inactive(c)

\* the claim's words for the credit check (C4)
CreditExcluded(c, a) ==
    /\ c.min_credit_score # None
    /\ mapCreditScore(a.creditScore).value > 0
    /\ mapCreditScore(a.creditScore).value + 20 < c.min_credit_score[1]

\* the user supplied a state (not absent, not blank)
StateSupplied(a) == a.state # None /\ trim(a.state[1]) # ""

\* the supplied state, trimmed, is an element of the region list, letter case aside
StateInRegions(c, a) ==
    /\ StateSupplied(a)
    /\ \E i \in 1..Len(c.available_regions) :
           toLowerCase(c.available_regions[i]) = toLowerCase(trim(a.state[1]))

\* C2: a national card that is visible, active and passes the credit check is in
\* the output of scoreCards for every answers.state, absent and blank included.
C2_NationalAlwaysShown ==
    Done => \A i \in 1..Len(cards) :
                (NationalCard(cards[i]) /\ Visible(cards[i]) /\ Active(cards[i])
                 /\ ~CreditExcluded(cards[i], answers))
                => InOutput(cards[i])

\* a national card that names other regions was returned to a user of a state it
\* does not name, and another to a user with a blank state
C2_Witness ==
    /\ Done
    /\ Len(cards) = 2
    /\ cards[1].available_regions = <<"Texas", "NATIONAL">>
    /\ cards[2].available_regions = <<"United States">>
    /\ answers.state \in {Some("Utah"), Some("  ")}
    /\ InOutput(cards[1]) /\ InOutput(cards[2])

\* C3: a non-national card that is visible, active and passes the credit check is
\* in the output iff a state was supplied and, trimmed and letter case aside, is
\* an element of available_regions; with no state only national cards appear.
C3_RegionalIffStateMatches ==
    Done => \A i \in 1..Len(cards) :
                (~NationalCard(cards[i]) /\ Visible(cards[i]) /\ Active(cards[i])
                 /\ ~CreditExcluded(cards[i], answers))
                => (InOutput(cards[i]) <=> StateInRegions(cards[i], answers))

\* a regional card was returned for a state that matches only after trimming and
\* lower-casing, beside a regional card of another spelling that was dropped
C3_Witness ==
    /\ Done
    /\ Len(cards) = 2
    /\ cards[1].available_regions = <<"UTAH", "Idaho">>
    /\ cards[2].available_regions = <<" utah">>
    /\ answers.state = Some(" uTaH ")
    /\ InOutput(cards[1]) /\ ~InOutput(cards[2])


\* ------------------------------------------------------------------
\*  Credit filter (C4)
\* ------------------------------------------------------------------

CreditCards ==
    {[BaseCard EXCEPT !.min_credit_score = m, !.available_regions = r] :
        m \in {None, Some(0), Some(650), Some(651), Some(700), Some(720), Some(721)},
        r \in {<<>>, <<"Utah">>}}

CreditAnswers ==
    {[BaseAnswers EXCEPT !.creditScore = cs, !.state = st] :
        cs \in {None, Some("none"), Some("poor"), Some("fair"), Some("good"),
                Some("excellent"), Some("unsure")},
        st \in {None, Some("Utah")}}

InitCredit == InitWith(CreditCards, CreditAnswers)

SpecCredit == InitCredit /\ [][Next]_vars

\* eligible but for the credit check: visible, active, and let through by region
OtherwiseEligible(c, a) ==
    /\ Visible(c) /\ Active(c)
    /\ NationalCard(c) \/ StateInRegions(c, a)

\* C4: an otherwise eligible card is excluded exactly when it declares a numeric
\* min_credit_score, the user's mapped score is known (> 0) and
\* userScore + 20 < minScore: min_credit_score 700 is out for "fair" (630) and in
\* for "good" (700), and minScore <= userScore + 20 is always kept.
C4_CreditBand ==
    Done => \A i \in 1..Len(cards) :
                OtherwiseEligible(cards[i], answers) =>
                    /\ ~InOutput(cards[i]) <=> CreditExcluded(cards[i], answers)
                    /\ (cards[i].min_credit_score = Some(700)
                        /\ answers.creditScore = Some("fair")) => ~InOutput(cards[i])
                    /\ (cards[i].min_credit_score = Some(700)
                        /\ answers.creditScore = Some("good")) => InOutput(cards[i])
                    /\ (cards[i].min_credit_score # None
                        /\ cards[i].min_credit_score[1]
                             <= mapCreditScore(answers.creditScore).value + 20)
                       => InOutput(cards[i])

\* a "fair" (630) user: the card asking 650 sits on the edge of the band and was
\* returned, the card asking 651 was dropped
C4_Witness ==
    /\ Done
    /\ Len(cards) = 2
    /\ answers.creditScore = Some("fair")
    /\ cards[1].min_credit_score = Some(650) /\ InOutput(cards[1])
    /\ cards[2].min_credit_score = Some(651) /\ ~InOutput(cards[2])
    /\ OtherwiseEligible(cards[2], answers)

\* ------------------------------------------------------------------
\*  Ranking (C5, C6) and the business-card penalty (C8)
\* ------------------------------------------------------------------

RankCards ==
    {[BaseCard EXCEPT !.is_business = b, !.annual_fee = f, !.rewards = r] :
        b \in {None, Some(TRUE), Some(FALSE)},
        f \in {None, Some(95)},
        r \in {<<>>, <<[category |-> Some("Groceries"), rate |-> Some(3)]>>}}

RankAnswers ==
    {[BaseAnswers EXCEPT !.businessCards = bz, !.spendGroceries = g, !.annualFee = p] :
        bz \in {None, Some("no"), Some("yes")},
        g \in {None, Some(50), Some(500)},
        p \in {None, Some("no_fee")}}

InitRank == InitWith(RankCards, RankAnswers)

SpecRank == InitRank /\ [][Next]_vars

\* the score of the result returned for input card c
ScoreOf(c) == results[CHOOSE k \in 1..Len(results) : results[k].id = c.id].score

\* C5: the sequence returned by scoreCards is ordered by score descending: each
\* result's score is at least the next one's.
C5_SortedDescending ==
    Done => \A i \in 1..(Len(results) - 1) : results[i].score >= results[i + 1].score

\* the second input card outscored the first and was returned first
C5_Witness ==
    /\ Done
    /\ Len(results) = 2
    /\ results[1].id = 2 /\ results[2].id = 1
    /\ results[1].score > results[2].score

\* C6: results of equal (rounded) score keep the relative order their cards had
\* in the input sequence.
C6_TiesKeepInputOrder ==
    Done => \A i, j \in 1..Len(results) :
                (i < j /\ results[i].score = results[j].score)
                => results[i].id < results[j].id

\* two different cards tied and came back in input order
C6_Witness ==
    /\ Done
    /\ Len(results) = 2
    /\ results[1].score = results[2].score
    /\ results[1].is_business # results[2].is_business
    /\ results[1].id = 1 /\ results[2].id = 2

\* card d is card c with is_business = false and nothing else changed
NonBusinessTwin(c, d) ==
    /\ c.is_business = Some(TRUE)
    /\ d = [c EXCEPT !.is_business = Some(FALSE), !.id = d.id]

\* C8 as stated: with businessCards = "no" a business card stays in the output and
\* scores exactly 5 less than its non-business twin.
C8_ExactlyFiveLower ==
    (Done /\ answers.businessCards = Some("no")) =>
        \A i, j \in 1..Len(cards) :
            NonBusinessTwin(cards[i], cards[j])
            => /\ InOutput(cards[i]) /\ InOutput(cards[j])
               /\ ScoreOf(cards[i]) = ScoreOf(cards[j]) - 500

\* C8 as amended: with businessCards = "no" a business card stays in the output; its
\* score before rounding is exactly 5.1 less than its non-business twin's (-5 against
\* the +0.1 the twin gets), so the two rounded scores differ by 5.10, give or take
\* the 0.01 of rounding each.
C8_FivePointOneLower ==
    (Done /\ answers.businessCards = Some("no")) =>
        \A i, j \in 1..Len(cards) :
            NonBusinessTwin(cards[i], cards[j])
            => /\ InOutput(cards[i]) /\ InOutput(cards[j])
               /\ scoreCard(cards[i], answers).score
                    = scoreCard(cards[j], answers).score - 5100000
               /\ ScoreOf(cards[j]) - ScoreOf(cards[i]) \in 509..511

\* a business card and its twin were scored for a user who said no to business
\* cards; both came back, the business card 5.10 lower and last
C8_Witness ==
    /\ Done
    /\ answers.businessCards = Some("no")
    /\ Len(cards) = 2
    /\ NonBusinessTwin(cards[1], cards[2])
    /\ Len(results) = 2
    /\ results[2].id = 1
    /\ results[1].score - results[2].score = 510

\* ------------------------------------------------------------------
\*  The reasons of a result (C7)
\* ------------------------------------------------------------------

ReasonCards ==
    {[BaseCard EXCEPT !.sign_up_bonus = b, !.annual_fee = Some(95),
                      !.transfer_partners = tp.partners,
                      !.credits_and_benefits = tp.benefits,
                      !.rewards = r] :
        b \in {None, Some([value_estimate |-> Some(200)])},
        tp \in {[partners |-> <<>>, benefits |-> <<>>],
                [partners |-> <<"Delta", "United">>,
                 benefits |-> <<"Free night award each year">>]},
        r \in {<<>>,
               <<[category |-> Some("Groceries"), rate |-> Some(3)],
                 [category |-> Some("Gas"), rate |-> Some(2)],
                 [category |-> Some("Online"), rate |-> Some(2)]>>}}

ReasonAnswers ==
    {[BaseAnswers EXCEPT !.airline = al, !.hotel = h, !.spendGroceries = g,
                         !.grocery = m.grocery, !.gas = m.gas,
                         !.onlineShopping = m.online] :
        al \in {<<>>, <<"Delta">>, <<"Delta", "United">>},
        h \in {<<>>, <<"Hyatt", "Marriott">>},
        g \in {None, Some(500)},
        m \in {[grocery |-> <<>>, gas |-> <<>>, online |-> <<>>],
               [grocery |-> <<"Costco">>, gas |-> <<"Shell">>, online |-> <<"Amazon">>]}}

InitReasons == InitWith(ReasonCards, ReasonAnswers)

SpecReasons == InitReasons /\ [][Next]_vars

\* the reasons the heuristics pushed for input card c, in the order of the pushes
Emitted(c) == scoreCard(c, answers).reasons

\* the input card a result was built from
CardOf(r) == cards[r.id]

\* C7: the reasons of every result are exactly the first min(6, n) of the n reasons
\* emitted for its card, in the order of emission; so no result has more than 6.
C7_ReasonsFirstSix ==
    Done => \A k \in 1..Len(results) :
                LET r == results[k]
                    e == Emitted(CardOf(r))
                IN /\ Len(r.reasons) = Min(6, Len(e))
                   /\ Len(r.reasons) <= 6
                   /\ \A i \in 1..Len(r.reasons) : r.reasons[i] = e[i]

\* ten reasons were emitted for a card (three on value, two airlines, two hotels,
\* three merchants) and its result carries the first six
C7_Witness ==
    /\ Done
    /\ Len(results) >= 1
    /\ Len(Emitted(CardOf(results[1]))) = 10
    /\ results[1].reasons =
         <<"Estimated ~$15 in yearly rewards",
           "Intro bonus worth about $200",
           "Annual fee: $95",
           "Strong match for your preferred airline (Delta)",
           "Strong match for your preferred airline (United)",
           "Strong match for your preferred hotel chain (Hyatt)">>

\* ------------------------------------------------------------------
\*  The annual-fee preference (C9)
\* ------------------------------------------------------------------

FeeCards ==
    {[BaseCard EXCEPT !.annual_fee = f] :
        f \in {None, Some(0), Some(1), Some(50), Some(95), Some(100), Some(101), Some(400)}}

FeeAnswers ==
    {[BaseAnswers EXCEPT !.annualFee = p] :
        p \in {None, Some("no_fee"), Some("small_fee"), Some("premium")}}

InitFee == InitWith(FeeCards, FeeAnswers)

SpecFee == InitFee /\ [][NextFee]_vars

\* card.annual_fee || 0
FeeOf(c) == orZero(c.annual_fee)

\* C9 as stated: with annualFee = "no_fee" and all else fixed, the fee-preference
\* contribution is strictly decreasing in annual_fee.
C9_StrictlyDecreasing ==
    (Done /\ answers.annualFee = Some("no_fee")) =>
        \A i, j \in 1..Len(cards) :
            FeeOf(cards[i]) < FeeOf(cards[j]) => ret[j] < ret[i]

\* C9 as amended: with annualFee = "no_fee" and all else fixed, the fee-preference
\* contribution never increases with annual_fee (fees from 0 up): it is 1.2 for a
\* fee of 0 and 0.1 for every positive fee, so it is strictly lower for a positive
\* fee than for no fee, and equal for two positive fees.
C9_NonIncreasingStep ==
    (Done /\ answers.annualFee = Some("no_fee")) =>
        \A i, j \in 1..Len(cards) :
            FeeOf(cards[i]) < FeeOf(cards[j])
            => /\ ret[j] <= ret[i]
               /\ FeeOf(cards[i]) = 0 => (ret[i] = 1200000 /\ ret[j] = 100000)
               /\ FeeOf(cards[i]) > 0 => ret[j] = ret[i]

\* a free card and a $95 card were scored for a user who wants no fee
C9_Witness ==
    /\ Done
    /\ answers.annualFee = Some("no_fee")
    /\ Len(cards) = 2
    /\ cards[1].annual_fee = Some(0) /\ cards[2].annual_fee = Some(95)
    /\ ret = <<1200000, 100000>>

\* ------------------------------------------------------------------
\*  The value contribution (C10)
\* ------------------------------------------------------------------

ValueCards ==
    {[BaseCard EXCEPT !.annual_fee = f, !.sign_up_bonus = b,
                      !.rewards = rw.rewards, !.point_value_baseline = rw.baseline] :
        f \in {None, Some(0), Some(95)},
        b \in {None, Some([value_estimate |-> Some(200)])},
        rw \in {[rewards |-> <<[category |-> Some("groceries"), rate |-> Some(3)]>>,
                 baseline |-> Some(100)],
                [rewards |-> <<[category |-> Some("Dining"), rate |-> Some(4)],
                               [category |-> Some("Everything"), rate |-> Some(2)]>>,
                 baseline |-> None]}}

ValueAnswers ==
    {[BaseAnswers EXCEPT !.redemption_value = e,
                         !.spendGroceries = sp.groceries, !.spendDining = sp.dining,
                         !.spendGas = sp.gas, !.spendEVCharging = sp.ev] :
        e \in {Some("no"), Some("sometimes")},
        sp \in {[groceries |-> None, dining |-> None, gas |-> None, ev |-> None],
                [groceries |-> Some(500), dining |-> None, gas |-> None, ev |-> None],
                [groceries |-> None, dining |-> Some(40),
                 gas |-> Some(100), ev |-> Some(50)]}}

InitValue == InitWith(ValueCards, ValueAnswers)

SpecValue == InitValue /\ [][Next]_vars

\* amount x resolved rate x point value for one spend category (1e-4 dollars)
CategoryValue(c, label, amount, pv) ==
    amount * getRewardRateForCategory(c.rewards, label) * pv

\* the sum over the ten spend categories; the Gas amount is gas plus EV charging
YearlyRewardsOf(c, a, pv) ==
      CategoryValue(c, "Groceries", orZero(a.spendGroceries), pv)
    + CategoryValue(c, "Dining", orZero(a.spendDining), pv)
    + CategoryValue(c, "Travel", orZero(a.spendTravel), pv)
    + CategoryValue(c, "Gas", orZero(a.spendGas) + orZero(a.spendEVCharging), pv)
    + CategoryValue(c, "Transit", orZero(a.spendTransit), pv)
    + CategoryValue(c, "Online Shopping", orZero(a.spendOnline), pv)
    + CategoryValue(c, "Rent", orZero(a.spendRent), pv)
    + CategoryValue(c, "Entertainment", orZero(a.spendEntertainment), pv)
    + CategoryValue(c, "Utilities", orZero(a.spendUtilities), pv)
    + CategoryValue(c, "Other", orZero(a.spendOther), pv)

\* (yearlyRewards + bonus - fee) / 100 in 1e-6 points, absent bonus and fee as 0
ValueContribution(c, a) ==
    YearlyRewardsOf(c, a, getPointValue(a.redemption_value, c.point_value_baseline,
                                        c.point_value_max))
    + ((IF c.sign_up_bonus = None THEN 0 ELSE orZero(c.sign_up_bonus[1].value_estimate))
       - orZero(c.annual_fee)) * 10000

\* what the other heuristics add to the score of card c (1e-6 points)
OtherContributions(c, a) ==
    quizAdjustments(c, a)
    + scoreAirlineHotel(c, a, <<>>).score
    + scoreMerchantPreferences(c, a, <<>>).score
    + scoreRegionBoost(c, userStateOf(a))

\* the card and the answers of the worked example
ExampleCard(c) ==
    /\ c.annual_fee = Some(0)
    /\ c.sign_up_bonus = None
    /\ c.rewards = <<[category |-> Some("groceries"), rate |-> Some(3)]>>
    /\ c.point_value_baseline = Some(100)

ExampleAnswers(a) ==
    /\ a.redemption_value = Some("no")
    /\ a.spendGroceries = Some(500)
    /\ a.spendDining = None /\ a.spendGas = None /\ a.spendEVCharging = None

\* C10: the value part of a card's score is (yearlyRewards + bonus - fee) / 100,
\* absent bonus and fee counting 0, yearlyRewards being the sum over the spend
\* categories of amount x resolved rate x point value: the returned score is that
\* plus the other heuristics' contributions, rounded. For the worked example
\* (fee 0, groceries at 3x, baseline 0.01, $500 of groceries, redemption "no") the
\* contribution is 0.15 and the reasons are the $15 estimate and the no-fee reason.
C10_ValueContribution ==
    Done => \A k \in 1..Len(results) :
                LET r == results[k]
                    c == CardOf(r)
                IN /\ r.score = toFixed2(ValueContribution(c, answers)
                                         + OtherContributions(c, answers))
                   /\ (ExampleCard(c) /\ ExampleAnswers(answers))
                      => /\ ValueContribution(c, answers) = 150000
                         /\ r.reasons = <<"Estimated ~$15 in yearly rewards",
                                          "No annual fee">>

\* the worked example was scored: 0.15 of value plus the 0.1 every card gets from
\* the business preference, and the two reasons
C10_Witness ==
    /\ Done
    /\ Len(results) >= 1
    /\ ExampleCard(CardOf(results[1]))
    /\ ExampleAnswers(answers)
    /\ results[1].score = 25
    /\ results[1].reasons = <<"Estimated ~$15 in yearly rewards", "No annual fee">>

\* ------------------------------------------------------------------
\*  Inputs and outputs of scoreCards (C11, C12)
\* ------------------------------------------------------------------

EligCards ==
    {[BaseCard EXCEPT !.visibility = v, !.availability_status = s,
                      !.available_regions = r, !.min_credit_score = m] :
        v \in {None, Some(FALSE)},
        s \in {None, Some("discontinued")},
        r \in {<<>>, <<"Utah">>},
        m \in {None, Some(700)}}

EligAnswers ==
    {[BaseAnswers EXCEPT !.state = st, !.creditScore = cs] :
        st \in {None, Some("utah"), Some("Texas")},
        cs \in {None, Some("fair"), Some("good")}}

InitElig == InitWith(EligCards, EligAnswers)

SpecElig == InitElig /\ [][Next]_vars

\* C11: scoreCards does not mutate its inputs: over the call the input card
\* sequence keeps its elements and their order, every card keeps its fields and
\* values (no score or reasons field appears on it), and answers is untouched.
C11_InputsNotMutated ==
    [][/\ cards' = cards
       /\ answers' = answers
       /\ \A i \in 1..Len(cards') :
              {"score", "reasons"} \cap DOMAIN cards'[i] = {}]_vars

\* two cards were scored and returned in the reverse of their input order, with
\* score and reasons on the results; the input still lists them in its own order
\* and without those two fields
C11_Witness ==
    /\ Done
    /\ Len(cards) = 2 /\ Len(results) = 2
    /\ results[1].id = 2 /\ results[2].id = 1
    /\ cards[1].id = 1 /\ cards[2].id = 2
    /\ "score" \in DOMAIN results[1]
    /\ "score" \notin DOMAIN cards[2]

\* the claim's words: the card passes the four eligibility checks
Eligible(c, a) ==
    /\ Visible(c)
    /\ Active(c)
    /\ NationalCard(c) \/ StateInRegions(c, a)
    /\ ~CreditExcluded(c, a)

\* the positions of the results built from input card c
ResultsOf(c) == {k \in 1..Len(results) : results[k].id = c.id}

\* C12: the output holds exactly one result for each input card that passes the
\* visibility, availability, region and credit checks and none for any other
\* card; each result has the fields of its card, unchanged, plus score and reasons.
C12_OneResultPerEligibleCard ==
    Done =>
        /\ \A i \in 1..Len(cards) :
               Cardinality(ResultsOf(cards[i]))
                   = IF Eligible(cards[i], answers) THEN 1 ELSE 0
        /\ \A k \in 1..Len(results) :
               /\ results[k].id \in 1..Len(cards)
               /\ DOMAIN results[k] = DOMAIN CardOf(results[k]) \cup {"score", "reasons"}
               /\ \A f \in DOMAIN CardOf(results[k]) :
                      results[k][f] = CardOf(results[k])[f]

\* of two cards the eligible one has its single result and the other, dropped by
\* the credit check, has none
C12_Witness ==
    /\ Done
    /\ Len(cards) = 2
    /\ Eligible(cards[1], answers)
    /\ Visible(cards[2]) /\ Active(cards[2]) /\ CreditExcluded(cards[2], answers)
    /\ Len(results) = 1
    /\ results[1].id = 1
    /\ results[1].available_regions = <<"Utah">>

\* ------------------------------------------------------------------
\*  The perks contribution (C14)
\* ------------------------------------------------------------------

\* benefit lines that answer the nine perk tags looked up in credits_and_benefits
AllBenefits ==
    <<"Priority Pass lounge", "Trip cancellation", "Rental car", "Cell phone",
      "Extended warranty", "Purchase protection", "Statement credit",
      "Gold status", "Airport parking">>

\* the eleven perk tags scorePerks recognises
AllPerks ==
    <<"lounge_access", "travel_insurance", "rental_car", "cell_phone",
      "extended_warranty", "purchase_protection", "no_foreign_fees", "credits",
      "elite_status", "cashback_portal", "airport_parking">>

PerkCards ==
    {[BaseCard EXCEPT !.credits_and_benefits = b,
                      !.foreign_fees = x.foreign, !.quiz_metadata = x.meta] :
        b \in {<<>>, <<"Priority Pass lounge", "Trip cancellation">>, AllBenefits},
        x \in {[foreign |-> None, meta |-> None],
               [foreign |-> Some("None"),
                meta |-> Some([manual_tags |-> <<"Cashback Portal">>,
                               region_priority |-> None])]}}

PerkAnswers ==
    {[BaseAnswers EXCEPT !.perks = p] :
        p \in {<<>>, <<"none">>, <<"lounge_access">>,
               <<"lounge_access", "travel_insurance">>,
               <<"Lounge_Access", "travel_insurance", "no_foreign_fees">>,
               <<"lounge_access", "lounge_access", "lounge_access">>,
               AllPerks, AllPerks \o <<"none">>, AllPerks \o AllPerks}}

InitPerks == InitWith(PerkCards, PerkAnswers)

SpecPerks == InitPerks /\ [][ApplyPerks]_vars

\* what the selected perks add up to for card c before any cap
PerksSum(c, a) ==
    perksTotalUpTo(a.perks, mapLower(c.credits_and_benefits),
                   mapLower(manualTags(c)), c, Len(a.perks))

\* C14: for every card and every answers.perks, whatever the number of tags and
\* of matches, the perks contribution returned by scorePerks is at most 2.0.
C14_PerksAtMostTwo ==
    Done => \A i \in 1..Len(cards) : ret[i] <= 2000000

\* all eleven tags were selected against a card that answers each of them: the
\* matches add up to 5.4 and the contribution returned is 2.0
C14_Witness ==
    /\ Done
    /\ Len(cards) >= 1
    /\ answers.perks = AllPerks
    /\ PerksSum(cards[1], answers) = 5400000
    /\ ret[1] = 2000000

\* ------------------------------------------------------------------
\*  The airline / hotel contribution (C15)
\* ------------------------------------------------------------------

LoyaltyCards ==
    {[BaseCard EXCEPT !.transfer_partners = tp, !.credits_and_benefits = b] :
        tp \in {<<>>, <<"Delta">>, <<"Delta", "United Airlines", "World of Hyatt">>},
        b \in {<<>>, <<"Free night award">>}}

LoyaltyAnswers ==
    {[BaseAnswers EXCEPT !.airline = al, !.hotel = h] :
        al \in {<<>>, <<"none">>, <<"international">>, <<"delta", "united">>,
                <<"Delta", "United", "International">>,
                <<"delta", "delta", "delta", "delta">>},
        h \in {<<>>, <<"none", "Hyatt">>, <<"Hyatt", "Marriott", "Hilton">>}}

InitLoyalty == InitWith(LoyaltyCards, LoyaltyAnswers)

SpecLoyalty == InitLoyalty /\ [][ApplyAirlineHotel]_vars

\* what the airline and hotel matches of card c add up to before any cap
LoyaltySum(c, a) ==
    airlineHotelFrom(SelectSeq(a.airline, notNone), SelectSeq(a.hotel, notNone),
                     mapLower(c.transfer_partners), mapLower(c.credits_and_benefits),
                     <<>>).score

\* C15: for every card and every answers.airline and answers.hotel, whatever the
\* number of matched airlines and hotels ("international" included), the
\* airline/hotel contribution is at most 4.0.
C15_AirlineHotelAtMostFour ==
    Done => \A i \in 1..Len(cards) : ret[i] <= 4000000

\* two airlines, "international" and three hotels all matched one card: the
\* matches add up to 7.6 and the contribution returned is 4.0
C15_Witness ==
    /\ Done
    /\ Len(cards) >= 1
    /\ answers.airline = <<"Delta", "United", "International">>
    /\ answers.hotel = <<"Hyatt", "Marriott", "Hilton">>
    /\ LoyaltySum(cards[1], answers) = 7600000
    /\ ret[1] = 4000000

\* ------------------------------------------------------------------
\*  The quiz-metadata contribution (C16)
\* ------------------------------------------------------------------

QuizCards ==
    {[BaseCard EXCEPT !.quiz_metadata = q] :
        q \in {None,
               Some([recommended_for |-> <<>>, manual_tags |-> <<>>,
                     region_priority |-> None]),
               Some([recommended_for |-> <<"advanced">>, manual_tags |-> <<>>,
                     region_priority |-> None]),
               Some([recommended_for |-> <<"Beginner", "Rebuilding", "frequent_traveler">>,
                     manual_tags |-> <<"Optimizer", "business_friendly", "cashback">>,
                     region_priority |-> None])}}

QuizAnswers ==
    {[BaseAnswers EXCEPT !.creditScore = cs, !.goal = g,
                         !.travelFrequency = x.travel, !.businessCards = x.business,
                         !.cardStrategy = x.strategy] :
        cs \in {None, Some("poor"), Some("good"), Some("excellent")},
        g \in {None, Some("cashback")},
        x \in {[travel |-> None, business |-> None, strategy |-> None],
               [travel |-> Some("frequently"), business |-> None, strategy |-> None],
               [travel |-> Some("frequently"), business |-> Some("yes"),
                strategy |-> Some("optimizer")]}}

InitQuiz == InitWith(QuizCards, QuizAnswers)

SpecQuiz == InitQuiz /\ [][ApplyQuizMetadata]_vars

\* the claim's words: the tags of the card, letter case aside
CardTags(c) ==
    IF c.quiz_metadata = None THEN {}
    ELSE {toLowerCase(c.quiz_metadata[1].recommended_for[i]) :
              i \in 1..Len(c.quiz_metadata[1].recommended_for)}
         \cup {toLowerCase(c.quiz_metadata[1].manual_tags[i]) :
                   i \in 1..Len(c.quiz_metadata[1].manual_tags)}

\* the claim's words: the implicit tag set derived from the answers
ImplicitTags(a) ==
    (IF a.creditScore \in {Some("poor"), Some("fair")} THEN {"beginner", "rebuilding"} ELSE {})
    \cup (IF a.creditScore \in {Some("good"), Some("very_good")} THEN {"intermediate"} ELSE {})
    \cup (IF a.creditScore = Some("excellent") THEN {"advanced"} ELSE {})
    \cup (IF a.goal # None THEN {a.goal[1]} ELSE {})
    \cup (IF a.travelFrequency = Some("frequently") THEN {"frequent_traveler"} ELSE {})
    \cup (IF a.travelFrequency = Some("occasionally") THEN {"casual_traveler"} ELSE {})
    \cup (IF a.businessCards = Some("yes") THEN {"business_friendly"} ELSE {})
    \cup (IF a.cardStrategy = Some("optimizer") THEN {"optimizer"} ELSE {})

MatchingTags(c, a) == Cardinality(CardTags(c) \cap ImplicitTags(a))

\* C16: the quiz-metadata contribution is 0 for a card with no recommended_for and
\* no manual_tags, 0.1 for a card with tags none of which is in the user's
\* implicit tag set, and otherwise 0.4 per matching tag capped at 1.5; it never
\* exceeds 1.5.
C16_QuizMetadataContribution ==
    Done => \A i \in 1..Len(cards) :
                /\ ret[i] <= 1500000
                /\ ret[i] = IF CardTags(cards[i]) = {} THEN 0
                            ELSE IF MatchingTags(cards[i], answers) = 0 THEN 100000
                            ELSE Min(1500000, 400000 * MatchingTags(cards[i], answers))

\* one card matched six implicit tags (2.4 before the cap) and got 1.5, and a
\* card with a tag the user does not have got 0.1
C16_Witness ==
    /\ Done
    /\ Len(cards) = 2
    /\ MatchingTags(cards[1], answers) = 6
    /\ ret[1] = 1500000
    /\ CardTags(cards[2]) = {"advanced"}
    /\ ret[2] = 100000

\* ------------------------------------------------------------------
\*  Totality over the documented inputs (C17)
\* ------------------------------------------------------------------

OptionalCardFields == DOMAIN BaseCard \ {"id", "name"}

\* every column absent, every column present, and each column alone present
\* or alone absent
TotalCards ==
    {BaseCard, FullCard}
    \cup {[BaseCard EXCEPT ![f] = FullCard[f]] : f \in OptionalCardFields}
    \cup {[FullCard EXCEPT ![f] = BaseCard[f]] : f \in OptionalCardFields}
    \cup {[FullCard EXCEPT !.sign_up_bonus = Some([value_estimate |-> None])],
          [FullCard EXCEPT !.quiz_metadata =
               Some([manual_tags |-> <<>>, region_priority |-> None])]}

\* every key absent, every key present, and each key alone present or alone
\* absent; and the body that is no object at all
TotalAnswers ==
    {BaseAnswers, FullAnswers, Undefined}
    \cup {[BaseAnswers EXCEPT ![f] = FullAnswers[f]] : f \in DOMAIN BaseAnswers}
    \cup {[FullAnswers EXCEPT ![f] = BaseAnswers[f]] : f \in DOMAIN BaseAnswers}

\* one card of TotalCards, or up to MaxCards of the two extreme cards
InitTotal ==
    /\ cards \in {<<[c EXCEPT !.id = 1]>> : c \in TotalCards}
                 \cup CardLists({BaseCard, FullCard})
    /\ answers \in TotalAnswers
    /\ results = <<>>
    /\ ret = <<>>
    /\ pc = "idle"
    /\ db = <<>>

SpecTotal == InitTotal /\ [][Next]_vars

\* the claim's words: answers is an object whose keys are the documented ones,
\* each absent, null or of its documented type
InDomain(a) == DOMAIN a = DOMAIN BaseAnswers

\* C17: scoreCards is total over the documented input domain: for every card
\* sequence and every answers object whose optional fields are absent, null or
\* of their documented type, the call returns a result sequence (no longer than
\* the input, each result with a numeric score and at most six reasons) and no
\* exception escapes.
C17_TotalOnDocumentedInputs ==
    (pc # "idle" /\ InDomain(answers)) =>
        /\ pc = "done"
        /\ Len(results) <= Len(cards)
        /\ \A k \in 1..Len(results) :
               /\ results[k].score \in Int
               /\ Len(results[k].reasons) <= 6

\* the call returned for a card with every column present against a body with
\* every key present but the state
C17_Witness ==
    /\ Done
    /\ cards = <<[FullCard EXCEPT !.id = 1]>>
    /\ answers = [FullAnswers EXCEPT !.state = None]
    /\ Len(results) = 1

\* ------------------------------------------------------------------
\*  Unrecognised enum answers (C18)
\* ------------------------------------------------------------------

EnumCards ==
    {[BaseCard EXCEPT !.recommended_goals = g, !.is_business = b,
                      !.annual_fee = x.fee, !.pairing_synergy = x.synergy,
                      !.rewards = x.rewards, !.transfer_partners = x.partners] :
        g \in {<<>>, <<"Cash back">>, <<"mystery">>},
        b \in {None, Some(TRUE)},
        x \in {[fee |-> None, synergy |-> <<>>, rewards |-> <<>>, partners |-> <<>>],
               [fee |-> Some(95), synergy |-> <<"Freedom">>,
                rewards |-> <<[category |-> Some("Travel"), rate |-> Some(3)]>>,
                partners |-> <<"Delta">>]}}

EnumAnswers ==
    {[BaseAnswers EXCEPT !.goal = g, !.annualFee = f, !.travelFrequency = t,
                         !.cardStrategy = s, !.businessCards = b] :
        g \in {Some("cashback"), Some("mystery")},
        f \in {Some("no_fee"), Some("whatever")},
        t \in {Some("frequently"), Some("daily"), Some("constructor")},
        s \in {Some("optimizer"), Some("maximalist")},
        b \in {Some("yes"), Some("maybe")}}

InitEnum == InitWith(EnumCards, EnumAnswers)

SpecEnum == InitEnum /\ [][ApplyEnumHeuristics \/ ScoreCards]_vars

\* the values each enum answer is matched against
GoalValues ==
    {"cashback", "points_miles", "maximize_value", "credit_building", "low_interest"}

FeeValues == {"no_fee", "small_fee", "premium"}

FrequencyValues == {"rarely", "occasionally", "frequently"}

StrategyValues == {"minimalist", "optimizer", "balanced"}

BusinessValues == {"yes", "no", "open_to_both"}

\* the answer is given and is not one of the recognised values
Unrecognised(v, values) == v # None /\ v[1] \notin values

\* card c lists the very string g among its normalised goals
ListsGoal(c, g) ==
    \E k \in 1..Len(c.recommended_goals) : normalizeGoalTag(c.recommended_goals[k]) = g

\* C18 as stated: an unrecognised value of goal, annualFee, travelFrequency,
\* cardStrategy or businessCards makes its heuristic contribute exactly 0, for
\* every card.
C18_UnrecognisedContributesZero ==
    Done => \A i \in DOMAIN ret :
                /\ Unrecognised(answers.goal, GoalValues) => ret[i].goal = 0
                /\ Unrecognised(answers.annualFee, FeeValues) => ret[i].annualFee = 0
                /\ Unrecognised(answers.travelFrequency, FrequencyValues)
                       => ret[i].travelFrequency = Num(0)
                /\ Unrecognised(answers.cardStrategy, StrategyValues)
                       => ret[i].cardStrategy = 0
                /\ Unrecognised(answers.businessCards, BusinessValues)
                       => ret[i].businessCards = 0

\* C18 as amended: an unrecognised value of annualFee or cardStrategy makes its
\* heuristic contribute exactly 0 for every card, and so does an unrecognised
\* travelFrequency unless it names a property inherited from Object.prototype,
\* which makes the contribution, and the score of every result, NaN; an
\* unrecognised goal gets the 0.3 of a goal that matches no card tag (1.5 from a
\* card that lists that very string); an unrecognised businessCards gets the
\* fall-through 0.1 from every card.
C18_UnrecognisedFallsThrough ==
    Done =>
        /\ \A i \in DOMAIN ret :
                /\ Unrecognised(answers.goal, GoalValues)
                       => ret[i].goal = IF ListsGoal(cards[i], answers.goal[1])
                                        THEN 1500000 ELSE 300000
                /\ Unrecognised(answers.annualFee, FeeValues) => ret[i].annualFee = 0
                /\ Unrecognised(answers.travelFrequency, FrequencyValues)
                       => ret[i].travelFrequency
                            = IF answers.travelFrequency[1] \in ObjectPrototypeKeys
                              THEN NotANumber ELSE Num(0)
                /\ Unrecognised(answers.cardStrategy, StrategyValues)
                       => ret[i].cardStrategy = 0
                /\ Unrecognised(answers.businessCards, BusinessValues)
                       => ret[i].businessCards = 100000
        /\ answers.travelFrequency = Some("constructor")
               => \A k \in DOMAIN results : results[k].score = NotANumber
        /\ answers.travelFrequency # Some("constructor")
               => \A k \in DOMAIN results : results[k].score \in Int

\* all five answers were unrecognised, against a business card with a fee, a
\* pairing and travel rewards: 0.3 and 0.1 from goal and business, 0 from the rest
C18_Witness ==
    /\ Done
    /\ Len(cards) = 1
    /\ cards[1].is_business = Some(TRUE) /\ cards[1].annual_fee = Some(95)
    /\ cards[1].recommended_goals = <<"Cash back">>
    /\ answers.goal = Some("mystery") /\ answers.annualFee = Some("whatever")
    /\ answers.travelFrequency = Some("daily")
    /\ answers.cardStrategy = Some("maximalist")
    /\ answers.businessCards = Some("maybe")
    /\ ret[1] = [goal |-> 300000, annualFee |-> 0, travelFrequency |-> Num(0),
                 cardStrategy |-> 0, businessCards |-> 100000]

\* travelFrequency "constructor": the travel fit of the card is NaN, and both
\* results of scoreCards carry a NaN score, in input order
C18_NaNScore ==
    /\ Done
    /\ answers.travelFrequency = Some("constructor")
    /\ Len(cards) = 2
    /\ Len(results) = 2
    /\ results[1].score = NotANumber /\ results[2].score = NotANumber
    /\ results[1].id = 1

\* ------------------------------------------------------------------
\*  POST /score (C19)
\* ------------------------------------------------------------------

\* ret is the sequence of responses sent for the request
InitRoute == InitWith(RankCards, RankAnswers \cup {Undefined})

SpecRoute == InitRoute /\ [][NextRoute]_vars

\* C19: at most one response is ever sent for a request, and once the handler
\* has run to its end exactly one: status 200 with the result sequence of
\* scoreCards when the query and the scoring both succeeded, otherwise status 500
\* with the body {error: message}; after a failure no result has been computed
\* or sent.
C19_ExactlyOneResponse ==
    /\ Len(ret) <= 1
    /\ pc \in {"idle", "awaiting"} => ret = <<>> /\ results = <<>>
    /\ pc = "returned" =>
          /\ Len(ret) = 1
          /\ ret[1].status = 200
          /\ ret[1].body = results
          /\ Len(results) = Cardinality({i \in 1..Len(cards) : Eligible(cards[i], answers)})
    /\ pc = "caught" =>
          /\ Len(ret) = 1
          /\ ret[1].status = 500
          /\ DOMAIN ret[1].body = {"error"}
          /\ results = <<>>

\* the query failed for a body that scoring accepts and a table with rows: one
\* 500 response, no result
C19_Witness ==
    /\ pc = "caught"
    /\ answers # Undefined
    /\ Len(cards) = 2
    /\ ret = <<InternalError>>
    /\ results = <<>>

\* ------------------------------------------------------------------
\*  Keyword matching of the rate resolver (C20)
\* ------------------------------------------------------------------

\* one reward entry per card, its category a keyword of one label without the
\* label itself, or the label itself
RateCards ==
    {[BaseCard EXCEPT !.rewards = <<[category |-> Some(c), rate |-> r]>>] :
        c \in {"Supermarkets", "Restaurants", "Airfare", "Fuel", "Rideshare",
               "Amazon", "Mortgage", "Streaming", "Phone plans", "Groceries"},
        r \in {Some(2), Some(3)}}

InitRates == InitWith(RateCards, {BaseAnswers})

SpecRates == InitRates /\ [][ApplyRewardRates]_vars

\* the key of the keyword table bound to the k-th label of the spend matrix
KeyOfLabel ==
    <<"groceries", "dining", "travel", "gas", "transit", "online", "rent",
      "entertainment", "utilities", "other">>

\* the category of entry r contains a keyword bound to the k-th label
KeywordHit(r, k) ==
    /\ r.category # None
    /\ \E j \in 1..Len(KEYWORDS(KeyOfLabel[k])) :
          includes(toLowerCase(r.category[1]), KEYWORDS(KeyOfLabel[k])[j])

\* every entry with a numeric rate whose category contains a keyword of the
\* k-th label takes part in the best rate returned for that label
KeywordEntriesCount(i, k) ==
    \A e \in 1..Len(cards[i].rewards) :
        (KeywordHit(cards[i].rewards[e], k) /\ cards[i].rewards[e].rate # None)
            => ret[i][k] >= cards[i].rewards[e].rate[1]

\* C20 as stated: for each of the nine labels with a keyword set (Groceries,
\* Dining, Travel, Gas, Transit, Online Shopping, Rent, Entertainment,
\* Utilities), an entry whose category contains a keyword of the label matches
\* and its numeric rate takes part in the best rate.
C20_KeywordEntryMatches ==
    Done => \A i \in 1..Len(cards) : \A k \in 1..9 : KeywordEntriesCount(i, k)

\* the same for the eight labels other than Groceries
C20_KeywordEntryMatchesButGroceries ==
    Done => \A i \in 1..Len(cards) : \A k \in 2..9 : KeywordEntriesCount(i, k)

\* a card whose one entry is "Supermarkets" at 3x gets the default 1x for the
\* label Groceries
C20_SupermarketMissed ==
    /\ Done
    /\ Len(cards) = 1
    /\ cards[1].rewards = <<[category |-> Some("Supermarkets"), rate |-> Some(3)]>>
    /\ ret[1][1] = 1

\* ------------------------------------------------------------------
\*  Best rate, catch-all and default of the rate resolver (C21)
\* ------------------------------------------------------------------

MaxRewards == 2

\* one card whose reward list has up to MaxRewards entries: a category holding
\* the label, a keyword of it, another label's keyword or a catch-all name, with
\* a numeric or an absent rate
InitBest ==
    /\ cards \in
         {<<[BaseCard EXCEPT !.id = 1, !.rewards = rs]>> :
             rs \in UNION {[1..n ->
                              [category : {Some("Dining"), Some("Restaurants"),
                                           Some("Hotels"), Some("Everything")},
                               rate : {None, Some(2), Some(3)}]] : n \in 0..MaxRewards}}
    /\ answers = BaseAnswers
    /\ results = <<>>
    /\ ret = <<>>
    /\ pc = "idle"
    /\ db = <<>>

SpecBest == InitBest /\ [][ApplyRewardRates]_vars

\* the category of entry r holds the k-th label or one of its keywords
MatchesLabel(r, k) ==
    \/ KeywordHit(r, k)
    \/ r.category # None
       /\ includes(toLowerCase(r.category[1]), toLowerCase(spendMatrix(answers)[k][1]))

\* the rates of the entries of rs that satisfy P and have a numeric rate
NumericRates(rs, P(_)) == {rs[e].rate[1] : e \in {x \in 1..Len(rs) : P(rs[x]) /\ rs[x].rate # None}}

MaxOf(S) == CHOOSE m \in S : \A x \in S : x <= m

\* the entries named as the catch-all, in list order
CatchAllAt(rs) ==
    {e \in 1..Len(rs) : rs[e].category # None
                        /\ toLowerCase(rs[e].category[1])
                              \in {"catch_all", "everything", "all purchases"}}

FirstOf(S) == CHOOSE m \in S : \A x \in S : m <= x

\* what the claim gives for reward list rs and the k-th label
ExpectedRate(rs, k) ==
    LET matched == NumericRates(rs, LAMBDA r : MatchesLabel(r, k))
    IN IF matched # {} THEN MaxOf(matched)
       ELSE IF CatchAllAt(rs) # {} /\ rs[FirstOf(CatchAllAt(rs))].rate # None
            THEN rs[FirstOf(CatchAllAt(rs))].rate[1]
            ELSE 1

\* C21: for every label other than Groceries, the rate returned is the highest
\* numeric rate among the matching entries when there is one; otherwise the rate
\* of the (first) catch-all entry when that is numeric; otherwise 1.
C21_BestThenCatchAllThenDefault ==
    Done => \A k \in 2..10 : ret[1][k] = ExpectedRate(cards[1].rewards, k)

\* two matching entries at 2x and 3x and the best is 3; and for a label that no
\* entry matches the answer is the default
C21_Witness ==
    /\ Done
    /\ cards[1].rewards = <<[category |-> Some("Restaurants"), rate |-> Some(3)],
                            [category |-> Some("Dining"), rate |-> Some(2)]>>
    /\ ret[1][2] = 3
    /\ ret[1][3] = 1

\* ------------------------------------------------------------------
\*  Spend amounts of the yearly estimate (C22)
\* ------------------------------------------------------------------

\* cards with no rewards or 3x on dining; amounts absent, zero, negative and
\* positive, with and without EV charging, and a goal that is no spend amount
InitSpend ==
    InitWith({[BaseCard EXCEPT !.rewards = r] :
                 r \in {<<>>, <<[category |-> Some("Dining"), rate |-> Some(3)]>>}},
             {[BaseAnswers EXCEPT !.spendDining = d, !.spendGas = g,
                                  !.spendEVCharging = ev, !.spendOther = o, !.goal = gl] :
                 d \in {None, Some(0), Some(-100), Some(200)},
                 g \in {None, Some(100)},
                 ev \in {None, Some(50)},
                 o \in {None, Some(10)},
                 gl \in {None, Some("cashback")}})

SpecSpend == InitSpend /\ [][ApplyYearlyRewards]_vars

\* the ten spend amounts of the answers, in the order of the spend matrix
TenAmounts(a) ==
    <<a.spendGroceries, a.spendDining, a.spendTravel, a.spendGas, a.spendTransit,
      a.spendOnline, a.spendRent, a.spendEntertainment, a.spendUtilities, a.spendOther>>

\* amount x rate x point value summed over the categories among the first k whose
\* amount satisfies Counts; the default point value 0.01 is 100
RECURSIVE SumOver(_, _, _, _)
SumOver(c, amounts, Counts(_), k) ==
    IF k = 0 THEN 0
    ELSE SumOver(c, amounts, Counts, k - 1)
         + (IF Counts(orZero(amounts[k]))
            THEN orZero(amounts[k])
                 * getRewardRateForCategory(c.rewards, spendMatrix(BaseAnswers)[k][1]) * 100
            ELSE 0)

\* C22 as stated: the total is the sum of amount x rate x pointValue over the
\* ten spend amounts that are positive numbers; an absent, zero or negative
\* amount adds nothing and no other answer field changes the total.
C22_OnlyPositiveAmountsCount ==
    Done => \A i \in 1..Len(cards) :
                ret[i] = SumOver(cards[i], TenAmounts(answers), LAMBDA x : x > 0, 10)

\* what the code computes: every non-zero amount counts, a negative one
\* included, and the Gas amount is spendGas plus spendEVCharging
C22_NonZeroAmountsCountWithEV ==
    Done => \A i \in 1..Len(cards) :
                ret[i] = SumOver(cards[i],
                                 [TenAmounts(answers) EXCEPT ![4] = gasTotal(answers)],
                                 LAMBDA x : x # 0, 10)

\* a dining amount of -100 on a 3x dining card takes 3 dollars off the total
C22_NegativeAmountCounted ==
    /\ Done
    /\ Len(cards) = 1
    /\ cards[1].rewards # <<>>
    /\ answers.spendDining = Some(-100)
    /\ answers.spendGas = None /\ answers.spendEVCharging = None
    /\ answers.spendOther = None
    /\ ret[1] = -30000

\* ------------------------------------------------------------------
\*  Unwanted business cards in the ranking (C23)
\* ------------------------------------------------------------------

\* business and other cards with no bonus or one worth 300 or 1000 dollars,
\* against a user who wants no business card
InitBiz ==
    InitWith({[BaseCard EXCEPT !.is_business = b, !.sign_up_bonus = v] :
                 b \in {Some(FALSE), Some(TRUE)},
                 v \in {None, Some([value_estimate |-> Some(300)]),
                        Some([value_estimate |-> Some(1000)])}},
             {[BaseAnswers EXCEPT !.businessCards = Some("no"), !.annualFee = p] :
                 p \in {None, Some("no_fee"), Some("premium")}})

SpecBiz == InitBiz /\ [][Next]_vars

IsBusiness(c) == c.is_business = Some(TRUE)

\* the place of input card c in the output
PositionOf(c) == CHOOSE k \in 1..Len(results) : results[k].id = c.id

\* the raw score of card c apart from the business preference (1e-6 points)
WithoutBusiness(c) == scoreCard(c, answers).score - scoreBusinessPreference(c, answers)

InitScoreMap ==
    InitWith({[BaseCard EXCEPT !.min_credit_score = m] :
                 m \in {None, Some(580), Some(700), Some(850)}},
             {[BaseAnswers EXCEPT !.creditScore = c] :
                 c \in {None, Some("poor"), Some("fair"), Some("good"),
                        Some("very_good"), Some("excellent"), Some("none"),
                        Some("unsure"), Some("constructor")}})

SpecScoreMap == InitScoreMap /\ [][ApplyMapCreditScore \/ ScoreCards]_vars

\* the documented table
CreditTable(c) ==
    CASE c = Some("poor") -> 550
      [] c = Some("fair") -> 630
      [] c = Some("good") -> 700
      [] c = Some("very_good") -> 740
      [] c = Some("excellent") -> 800
      [] OTHER -> 0

\* no card is missing from the output when the table gives 0
NoCardExcludedOnZero ==
    CreditTable(answers.creditScore) = 0 => Len(results) = Len(cards)

\* C24 as stated: mapCreditScore returns 550, 630, 700, 740, 800 for the five
\* ranges and 0 for every other or absent value; and when it returns 0 the
\* credit check excludes no card, whatever the card's min_credit_score.
C24_TableAndZeroNeverFilters ==
    Done => /\ \A i \in DOMAIN ret : ret[i] = Num(CreditTable(answers.creditScore))
            /\ ret = <<>> => NoCardExcludedOnZero

\* what the code computes: the same, except that a value naming a property
\* inherited from Object.prototype gets that property, which is no number, and
\* filters no card either
C24_TableButInheritedKeys ==
    Done => /\ \A i \in DOMAIN ret :
                 ret[i] = IF answers.creditScore \in {Some(k) : k \in ObjectPrototypeKeys}
                          THEN NotANumber
                          ELSE Num(CreditTable(answers.creditScore))
            /\ ret = <<>> => NoCardExcludedOnZero

\* creditScore "constructor": the value returned is not the number 0
C24_InheritedKeyReturned ==
    /\ Done
    /\ answers.creditScore = Some("constructor")
    /\ ret = <<NotANumber>>

\* ------------------------------------------------------------------
\*  The point value (C25)
\* ------------------------------------------------------------------

\* baselines absent, zero, negative, 0.01 and 0.02 with maxima absent, zero and
\* 0.03 (in 1e-4 dollars), against every effort answer and an unknown one
InitPoint ==
    InitWith({[BaseCard EXCEPT !.point_value_baseline = b, !.point_value_max = m] :
                 b \in {None, Some(0), Some(-100), Some(100), Some(200)},
                 m \in {None, Some(0), Some(300)}},
             {[BaseAnswers EXCEPT !.redemption_value = e] :
                 e \in {None, Some("yes"), Some("sometimes"), Some("no"),
                        Some("none"), Some("always")}})

SpecPoint == InitPoint /\ [][ApplyPointValue]_vars

PositiveNumber(o) == o # None /\ o[1] > 0

\* the baseline the claim gives for card c
BaselineOf(c) ==
    IF PositiveNumber(c.point_value_baseline) THEN c.point_value_baseline[1] ELSE 100

\* twice the maximum the claim gives for card c (baseline x 1.5 is 3/2 of it)
TwiceMaxOf(c) ==
    IF PositiveNumber(c.point_value_max) THEN 2 * c.point_value_max[1]
    ELSE 3 * BaselineOf(c)

\* C25: the value returned is max for effort "yes", the mean of baseline and max
\* for "sometimes" and baseline for any other or absent effort, with baseline the
\* card's point_value_baseline if a positive number else 0.01 and max the card's
\* point_value_max if a positive number else baseline x 1.5.
C25_PointValue ==
    Done => \A i \in 1..Len(cards) :
                CASE answers.redemption_value = Some("yes")
                        -> 2 * ret[i] = TwiceMaxOf(cards[i])
                  [] answers.redemption_value = Some("sometimes")
                        -> 4 * ret[i] = 2 * BaselineOf(cards[i]) + TwiceMaxOf(cards[i])
                  [] OTHER -> ret[i] = BaselineOf(cards[i])

\* effort "sometimes" on a card with a baseline of 0.02 and no maximum: the
\* maximum is 0.03 and the value 0.025
C25_Witness ==
    /\ Done
    /\ Len(cards) = 1
    /\ cards[1].point_value_baseline = Some(200)
    /\ cards[1].point_value_max = None
    /\ answers.redemption_value = Some("sometimes")
    /\ ret = <<250>>

\* ------------------------------------------------------------------
\*  The perk answer "none" (C26)
\* ------------------------------------------------------------------

\* C26 as stated: when answers.perks contains "none", the perks contribution
\* is the flat value 0.2 for every card, whatever the card's benefits and the
\* other tags selected.
C26_NoneGivesFlatValue ==
    Done => \A i \in 1..Len(cards) :
                arrayIncludes(answers.perks, "none") => ret[i] = 200000

\* what the code computes: "none" gives 0 for every card, as no perk at all does
C26_NoneGivesZero ==
    Done => \A i \in 1..Len(cards) :
                arrayIncludes(answers.perks, "none") => ret[i] = 0

\* "none" selected after all eleven tags, against the card that answers each of
\* them: the contribution is 0
C26_NoneAmongAllTags ==
    /\ Done
    /\ Len(cards) = 1
    /\ cards[1].credits_and_benefits = AllBenefits
    /\ answers.perks = AllPerks \o <<"none">>
    /\ ret = <<0>>

\* ------------------------------------------------------------------
\*  The annual-fee reason (C27)
\* ------------------------------------------------------------------

\* cards with no fee column, a fee of 0 or of 95, with or without a bonus, bare
\* or with partners, benefits and rewards; answers that draw no other reason, or
\* nine of them
InitFeeReason ==
    InitWith({[BaseCard EXCEPT !.annual_fee = f, !.sign_up_bonus = b,
                               !.transfer_partners = x.partners,
                               !.credits_and_benefits = x.benefits,
                               !.rewards = x.rewards] :
                 f \in {None, Some(0), Some(95)},
                 b \in {None, Some([value_estimate |-> Some(200)])},
                 x \in {[partners |-> <<>>, benefits |-> <<>>, rewards |-> <<>>],
                        [partners |-> <<"Delta", "United">>,
                         benefits |-> <<"Free night award each year">>,
                         rewards |-> <<[category |-> Some("Groceries"), rate |-> Some(3)],
                                       [category |-> Some("Gas"), rate |-> Some(2)],
                                       [category |-> Some("Online"), rate |-> Some(2)]>>]}},
             {BaseAnswers,
              [BaseAnswers EXCEPT !.spendGroceries = Some(500)],
              [BaseAnswers EXCEPT !.spendGroceries = Some(500),
                                  !.airline = <<"Delta", "United">>,
                                  !.hotel = <<"Hyatt", "Marriott">>,
                                  !.grocery = <<"Costco">>, !.gas = <<"Shell">>,
                                  !.onlineShopping = <<"Amazon">>]})

SpecFeeReason == InitFeeReason /\ [][Next]_vars

\* reason s is one of the two reasons about the annual fee
IsFeeReason(s) == s = "No annual fee" \/ (Len(s) >= 13 /\ SubSeq(s, 1, 13) = "Annual fee: $")

\* the reason about the annual fee that card c calls for
FeeReasonOf(c) ==
    IF orZero(c.annual_fee) > 0
    THEN "Annual fee: $" \o ToString(c.annual_fee[1])
    ELSE "No annual fee"

\* C27: every result carries exactly one reason about the annual fee, the fee
\* amount when annual_fee > 0 and the no-annual-fee reason otherwise, among its
\* first three reasons, whatever the truncation to six dropped.
C27_OneFeeReason ==
    Done => \A k \in 1..Len(results) :
                LET rs == results[k].reasons
                    at == {i \in 1..Len(rs) : IsFeeReason(rs[i])}
                IN /\ Cardinality(at) = 1
                   /\ \A i \in at : i <= 3 /\ rs[i] = FeeReasonOf(CardOf(results[k]))

\* ten reasons were emitted for a card with a fee of 0, four of them dropped,
\* and "No annual fee" is the third of the six kept
C27_Witness ==
    /\ Done
    /\ Len(results) = 1
    /\ cards[1].annual_fee = Some(0)
    /\ Len(Emitted(cards[1])) = 10
    /\ Len(results[1].reasons) = 6
    /\ results[1].reasons[3] = "No annual fee"

\* ------------------------------------------------------------------
\*  The approval-comfort contribution of the engine variant (C28)
\* ------------------------------------------------------------------

\* visible cards asking for no score, 0, 650, 690, 700, 705, 715 or 750, against
\* no answer, "none", "good" (700), "excellent" (800) and an inherited name
InitApproval ==
    InitWith({[BaseCard EXCEPT !.min_credit_score = m] :
                 m \in {None, Some(0), Some(650), Some(690), Some(700), Some(705),
                        Some(715), Some(750)}},
             {[BaseAnswers EXCEPT !.creditScore = c] :
                 c \in {None, Some("none"), Some("good"), Some("excellent"),
                        Some("constructor")}})

SpecApproval == InitApproval /\ [][ApplyApprovalComfort]_vars

\* the user's score by the documented table, 0 when unknown
UserScore == CreditTable(answers.creditScore)

\* both scores are known for card c
BothKnown(c) == UserScore > 0 /\ c.min_credit_score # None /\ c.min_credit_score[1] # 0

\* the contribution of the band the difference d falls in
BandOf(d) ==
    IF d >= 30 THEN 2000000
    ELSE IF d >= 10 THEN 1500000
    ELSE IF d >= 0 THEN 1000000
    ELSE IF d >= -10 THEN 400000
    ELSE 100000

\* C28: a card that reaches scoring with both scores known has userScore -
\* minScore >= -20, gets 2.0, 1.5, 1.0, 0.4 or 0.1 by the band of the difference
\* and exactly one qualification reason; with either score unknown it gets 0 and
\* no qualification reason.
C28_ApprovalComfort ==
    Done => \A i \in 1..Len(cards) :
                ret[i] # None =>
                    IF BothKnown(cards[i])
                    THEN /\ UserScore - cards[i].min_credit_score[1] >= -20
                         /\ ret[i][1].score = BandOf(UserScore - cards[i].min_credit_score[1])
                         /\ Len(ret[i][1].reasons) = 1
                    ELSE ret[i][1] = [score |-> 0, reasons |-> <<>>]

\* a "good" user (700) against cards asking 715 and 750: the first is scored in
\* the lowest band with its one reason, the second never reaches scoring
C28_Witness ==
    /\ Done
    /\ Len(cards) = 2
    /\ answers.creditScore = Some("good")
    /\ cards[1].min_credit_score = Some(715)
    /\ cards[2].min_credit_score = Some(750)
    /\ ret[1] # None /\ ret[1][1].score = 100000 /\ Len(ret[1][1].reasons) = 1
    /\ ret[2] = None

\* ------------------------------------------------------------------
\*  Seeding: upsertCard and the transaction of seed()
\* ------------------------------------------------------------------

\* the card files the seed reads, by slug
Slugs == {"amex-gold", "chase-freedom"}

\* the seven child tables of a card row
ChildTables ==
    {"rewards", "sign_up_bonuses", "credits_and_benefits", "transfer_partners",
     "recommended_goals", "available_regions", "pairing_synergy"}

\* the tables as one client sees them: the cards row of each slug (None when
\* there is none; slug is the conflict key) and, per child table and slug, the
\* rows with that card_slug in insertion order (updated_at and row ids left out)
EmptyTables ==
    [cards |-> [s \in Slugs |-> None],
     children |-> [t \in ChildTables |-> [s \in Slugs |-> <<>>]]]

\* the values bound to the INSERT ... ON CONFLICT (slug) DO UPDATE of the core
\* row; the columns bound as `card.x ?? null` all go the way of annual_fee
cardRow(card) ==
    [slug |-> card.id, name |-> card.name, annual_fee |-> card.annual_fee,
     is_business |-> card.is_business = Some(TRUE)]

\* INSERT INTO cards ... ON CONFLICT (slug) DO UPDATE SET ...
upsertRow(tables, card) ==
    [tables EXCEPT !.cards[card.id] = Some(cardRow(card))]

\* mutant: the child rows of the card are not deleted before the inserts
clearChildren_kept(tables, slug) == tables

\* the seven DELETE FROM ... WHERE card_slug = $1
clearChildren(tables, slug) ==
    [tables EXCEPT !.children = [t \in ChildTables |-> [@[t] EXCEPT ![slug] = <<>>]]]

\* the rows the insert loops bind for each child table; the sign-up bonus is
\* the first element of the array form, if any
childRows(card) ==
    [rewards |-> [i \in 1..Len(card.rewards) |->
                     [category |-> card.rewards[i].category,
                      rate |-> card.rewards[i].rate,
                      details |-> card.rewards[i].details]],
     sign_up_bonuses |->
         IF Len(card.sign_up_bonus) > 0
         THEN <<[description |-> orEmpty(card.sign_up_bonus[1].description),
                 value_estimate |-> card.sign_up_bonus[1].value_estimate]>>
         ELSE <<>>,
     credits_and_benefits |->
         [i \in 1..Len(card.credits_and_benefits) |->
             [type |-> card.credits_and_benefits[i].type,
              value |-> card.credits_and_benefits[i].value,
              details |-> card.credits_and_benefits[i].details,
              category |-> card.credits_and_benefits[i].category]],
     transfer_partners |-> card.transfer_partners,
     recommended_goals |-> card.recommended_goals,
     available_regions |-> card.available_regions,
     pairing_synergy |-> card.pairing_synergy]

\* the INSERT loops: each row is added to the rows of its table
insertChildren(tables, card) ==
    [tables EXCEPT !.children =
        [t \in ChildTables |-> [@[t] EXCEPT ![card.id] = @ \o childRows(card)[t]]]]

\* upsertCard stopped by a failing query after k of its three parts: the core
\* row, the deletes, the inserts
upsertCardUpTo(tables, card, k) ==
    IF k = 0 THEN tables
    ELSE IF k = 1 THEN upsertRow(tables, card)
    ELSE IF k = 2 THEN clearChildren(upsertRow(tables, card), card.id)
    ELSE insertChildren(clearChildren(upsertRow(tables, card), card.id), card)

upsertCard(tables, card) == upsertCardUpTo(tables, card, 3)

\* the card files upserted so far in this run
filesDone == Cardinality({k \in 1..Len(ret) : ret[k] = "UPSERT"})

\* const client = await pool.connect()
Connect ==
    /\ pc = "idle"
    /\ \E ok \in BOOLEAN : pc' = IF ok THEN "connected" ELSE "noClient"
    /\ UNCHANGED <<cards, answers, results, ret, db>>

\* await client.query("BEGIN")
Begin ==
    /\ pc = "connected"
    /\ \E ok \in BOOLEAN :
          IF ok
          THEN /\ ret' = Append(ret, "BEGIN")
               /\ db' = [db EXCEPT !.open = TRUE]
               /\ pc' = "loop"
          ELSE /\ ret' = ret \o <<"BEGIN", "throw">>
               /\ db' = db
               /\ pc' = "catch"
    /\ UNCHANGED <<cards, answers, results>>

\* one turn of the loop over the card files: the file is read and parsed and
\* upsertCard runs; k = 3 is a turn without error, k = -1 a file that cannot be
\* read or parsed, k in 0..2 a query failing after k parts of upsertCard
SeedFile ==
    /\ pc = "loop"
    /\ filesDone < Len(cards)
    /\ \E k \in -1..3 :
          IF k = 3
          THEN /\ db' = [db EXCEPT !.tx = upsertCard(db.tx, cards[filesDone + 1])]
               /\ ret' = Append(ret, "UPSERT")
               /\ pc' = "loop"
          ELSE /\ db' = IF k = -1 THEN db
                        ELSE [db EXCEPT !.tx = upsertCardUpTo(db.tx, cards[filesDone + 1], k)]
               /\ ret' = Append(ret, "throw")
               /\ pc' = "catch"
    /\ UNCHANGED <<cards, answers, results>>

\* mutant: COMMIT is issued as soon as one file has been upserted
Commit_early ==
    /\ pc = "loop"
    /\ filesDone >= 1
    /\ ret' = Append(ret, "COMMIT")
    /\ db' = [db EXCEPT !.committed = db.tx, !.open = FALSE]
    /\ pc' = "finally"
    /\ UNCHANGED <<cards, answers, results>>

\* await client.query("COMMIT"), once the loops are over
Commit ==
    /\ pc = "loop"
    /\ filesDone = Len(cards)
    /\ \E ok \in BOOLEAN :
          IF ok
          THEN /\ ret' = Append(ret, "COMMIT")
               /\ db' = [db EXCEPT !.committed = db.tx, !.open = FALSE]
               /\ pc' = "finally"
          ELSE /\ ret' = ret \o <<"COMMIT", "throw">>
               /\ db' = db
               /\ pc' = "catch"
    /\ UNCHANGED <<cards, answers, results>>

\* catch (e) { await client.query("ROLLBACK"); ... }; a ROLLBACK that fails
\* leaves the catch block by its exception
Catch ==
    /\ pc = "catch"
    /\ \E ok \in BOOLEAN :
          IF ok
          THEN /\ ret' = Append(ret, "ROLLBACK")
               /\ db' = [db EXCEPT !.tx = db.committed, !.open = FALSE]
          ELSE /\ ret' = ret \o <<"ROLLBACK", "throw">>
               /\ db' = db
    /\ pc' = "finally"
    /\ UNCHANGED <<cards, answers, results>>

\* finally { client.release(); await pool.end(); }: a transaction still open
\* goes with its connection
Finally ==
    /\ pc = "finally"
    /\ ret' = Append(ret, "release")
    /\ db' = [db EXCEPT !.tx = db.committed, !.open = FALSE]
    /\ pc' = "released"
    /\ UNCHANGED <<cards, answers, results>>

NextSeed == Connect \/ Begin \/ SeedFile \/ Commit \/ Catch \/ Finally

\* card files: two versions of one card, one with every list filled and one
\* with none, and another card
SeedCards ==
    {[id |-> "amex-gold", name |-> "Gold", annual_fee |-> Some(250),
      is_business |-> None,
      rewards |-> <<[category |-> "Dining", rate |-> 4, details |-> None],
                    [category |-> "Dining", rate |-> 4, details |-> None]>>,
      sign_up_bonus |-> <<[description |-> None, value_estimate |-> Some(600)]>>,
      credits_and_benefits |->
          <<[type |-> Some("credit"), value |-> Some(120), details |-> None,
             category |-> Some("Dining")]>>,
      transfer_partners |-> <<"Delta">>, recommended_goals |-> <<"travel">>,
      available_regions |-> <<"US">>, pairing_synergy |-> <<"chase-freedom">>],
     [id |-> "amex-gold", name |-> "Gold", annual_fee |-> Some(325),
      is_business |-> None, rewards |-> <<>>, sign_up_bonus |-> <<>>,
      credits_and_benefits |-> <<>>, transfer_partners |-> <<>>,
      recommended_goals |-> <<>>, available_regions |-> <<>>,
      pairing_synergy |-> <<>>],
     [id |-> "chase-freedom", name |-> "Freedom", annual_fee |-> None,
      is_business |-> Some(TRUE),
      rewards |-> <<[category |-> "Everything", rate |-> 1, details |-> None]>>,
      sign_up_bonus |-> <<>>,
      credits_and_benefits |-> <<>>, transfer_partners |-> <<>>,
      recommended_goals |-> <<"cash back">>, available_regions |-> <<>>,
      pairing_synergy |-> <<>>]}

\* a run of seed() over up to MaxCards + 1 card files against empty tables
InitSeed ==
    /\ cards \in UNION {[1..n -> SeedCards] : n \in 0..(MaxCards + 1)}
    /\ answers = BaseAnswers
    /\ results = <<>>
    /\ ret = <<>>
    /\ pc = "idle"
    /\ db = [committed |-> EmptyTables, tx |-> EmptyTables, open |-> FALSE]

SpecSeed == InitSeed /\ [][NextSeed]_vars


\* the events of the run so far equal to e
CountOf(e) == Cardinality({k \in 1..Len(ret) : ret[k] = e})

\* the first place of event e in the run, 0 when there is none
FirstAt(e) ==
    IF CountOf(e) = 0 THEN 0
    ELSE CHOOSE k \in 1..Len(ret) : ret[k] = e /\ \A j \in 1..(k - 1) : ret[j] # e

\* the tables after the first n card files have been upserted in order
RECURSIVE SeededUpTo(_)
SeededUpTo(n) ==
    IF n = 0 THEN EmptyTables ELSE upsertCard(SeededUpTo(n - 1), cards[n])

\* C29 as stated: a run that has released its client has issued exactly one of
\* COMMIT and ROLLBACK, the COMMIT only after every file was upserted without
\* error, and after any failure no COMMIT but a ROLLBACK, with nothing committed
C29_ExactlyOneOfCommitRollback ==
    pc = "released" =>
        /\ CountOf("COMMIT") + CountOf("ROLLBACK") = 1
        /\ CountOf("COMMIT") = 1 => filesDone = Len(cards)
        /\ CountOf("throw") > 0 =>
              /\ CountOf("COMMIT") = 0
              /\ CountOf("ROLLBACK") = 1
              /\ db.committed = EmptyTables

\* C29: in a run that has released its client, release is the last event and
\* COMMIT and ROLLBACK were issued at most once each and at least one of them.
\* COMMIT is issued only after BEGIN and one upsert per card file without any
\* error, and a COMMIT that succeeds commits exactly those upserts.  The first
\* failure is followed by ROLLBACK and by no further upsert or COMMIT, and
\* nothing of the run is committed.  Both statements are issued only when the
\* failure is that of the COMMIT statement itself.
C29_TransactionEnded ==
    pc = "released" =>
        /\ ret[Len(ret)] = "release"
        /\ CountOf("release") = 1
        /\ CountOf("COMMIT") <= 1
        /\ CountOf("ROLLBACK") <= 1
        /\ CountOf("COMMIT") + CountOf("ROLLBACK") >= 1
        /\ CountOf("COMMIT") = 1 =>
              /\ filesDone = Len(cards)
              /\ FirstAt("COMMIT") = Len(cards) + 2
              /\ ret[1] = "BEGIN"
              /\ \A k \in 2..(Len(cards) + 1) : ret[k] = "UPSERT"
        /\ CountOf("throw") = 0 =>
              /\ CountOf("COMMIT") = 1
              /\ CountOf("ROLLBACK") = 0
              /\ db.committed = SeededUpTo(Len(cards))
        /\ CountOf("throw") > 0 =>
              /\ CountOf("ROLLBACK") = 1
              /\ FirstAt("ROLLBACK") = FirstAt("throw") + 1
              /\ \A k \in FirstAt("throw")..Len(ret) : ret[k] \notin {"UPSERT", "COMMIT", "BEGIN"}
              /\ db.committed = EmptyTables
        /\ CountOf("COMMIT") + CountOf("ROLLBACK") = 2 =>
              FirstAt("throw") = FirstAt("COMMIT") + 1

\* a run that upserted a card, failed on a later file, rolled back and
\* released its client with nothing committed
C29_Witness ==
    /\ pc = "released"
    /\ filesDone >= 1
    /\ CountOf("COMMIT") = 0
    /\ CountOf("ROLLBACK") = 1
    /\ db.committed = EmptyTables

\* a run whose COMMIT statement failed: both COMMIT and ROLLBACK were issued
C29_CommitFailed ==
    /\ pc = "released"
    /\ CountOf("COMMIT") = 1
    /\ CountOf("ROLLBACK") = 1

\* C30: once upsertCard has run for a card, running it again with the same
\* card JSON leaves every table as it is, and each child table holds for that
\* card as many rows as the JSON lists
C30_ReseedIdempotent ==
    (pc = "loop" /\ filesDone >= 1) =>
        /\ upsertCard(db.tx, cards[filesDone]) = db.tx
        /\ \A t \in ChildTables :
              Len(db.tx.children[t][cards[filesDone].id]) = Len(childRows(cards[filesDone])[t])

\* the same card file upserted twice in a row, with rows in every child table
C30_Witness ==
    /\ pc = "loop"
    /\ filesDone >= 2
    /\ cards[filesDone] = cards[filesDone - 1]
    /\ \A t \in ChildTables : Len(db.tx.children[t][cards[filesDone].id]) >= 1

====
